---- MODULE Spec2Model ----
(***************************************************************************)
(* Telemetry decoding / dispatch core of the Tesla Fleet Telemetry         *)
(* integration: the Kafka consumer (kafka_consumer.py) with its reconnect  *)
(* state machine, the MQTT client (mqtt_client.py), the binary sensor,     *)
(* sensor, switch and tracker entities (binary_sensor.py, sensor.py,       *)
(* switch.py, device_tracker.py), and the config flow and options flow     *)
(* (config_flow.py) with the Tesla API client (tesla_api.py).              *)
(***************************************************************************)
EXTENDS Integers, Sequences, FiniteSets, TLC

VARIABLES
    transport,          \* the transport this integration instance uses
    setup,              \* async_setup_entry: "platforms" | "loaded"
    regLog,             \* the register_callback calls made, in call order
    callbacks,          \* TeslaKafkaConsumer._callbacks (dict, insertion order)
    running,            \* TeslaKafkaConsumer._running
    reconnect_attempts, \* TeslaKafkaConsumer._reconnect_attempts
    consumer,           \* TeslaKafkaConsumer._consumer: 0 (None) or a handle
    openHandles,        \* KafkaConsumer objects created and not yet closed
    nextHandle,         \* identity of the next KafkaConsumer object
    task,               \* the _connect_and_consume tasks created by start()
    lastMsg,            \* the record whose _process_message finished last
    stopRequested,      \* stop() was called after the last start()
    mqtt_callbacks,     \* TeslaMQTTClient._callbacks
    unsubscribes,       \* TeslaMQTTClient._unsubscribes
    connected,          \* TeslaMQTTClient._connected
    subs,               \* subscriptions active in Home Assistant's MQTT layer
    nextSub,            \* identity of the next subscription
    mqttLast,           \* the MQTT message handled last
    unsubLog,           \* the unsubscribe handles start() collected and the
                        \* calls stop() made of them
    now,                \* datetime.now(), in minutes
    flow,               \* the config flow (TeslaTelemetryConfigFlow)
    entity,             \* a binary sensor entity (TeslaBinarySensor)
    lastCall,           \* the entity method that ran last, "none" after time
                        \* has passed
    switch,             \* a switch entity (TeslaSwitch)
    sensor,             \* a sensor entity (TeslaSensor)
    tracker,            \* the device tracker (TeslaDeviceTracker)
    options             \* the options flow (TeslaTelemetryOptionsFlow)

setupVars == <<transport, setup, regLog>>
kafkaVars == <<callbacks, running, reconnect_attempts, consumer,
               openHandles, nextHandle, task, lastMsg, stopRequested>>
mqttVars == <<mqtt_callbacks, unsubscribes, connected, subs, nextSub, mqttLast,
              unsubLog>>

deviceVars == <<switch, sensor, tracker, options>>
entityVars == <<now, flow, entity, lastCall, deviceVars>>

vars == <<setupVars, kafkaVars, mqttVars, entityVars>>

\* ------------------------------------------------------------------------
\* Bounds of the model
MaxStarts == 2      \* calls of start(), one task each
MaxHandles == 1     \* KafkaConsumer objects created
MaxBatch == 2       \* records returned by one poll
MaxRegs == 2        \* register_callback calls during platform setup
MaxNow == 7         \* minutes the clock runs

\* Program constants
MAX_RECONNECT_ATTEMPTS == 10
RECONNECT_DELAY == 30
AWAKE_TIMEOUT_MINUTES == 5
VIN_LENGTH == 17

NoHandle == 0
VehicleVin == "5YJ3E1EA1MF000000"
OtherVin == "OTHERVIN000000000"

Tasks == 1..MaxStarts

\* ------------------------------------------------------------------------
\* Canonical values (Python objects) as tagged records
VNone == [t |-> "none"]
VInt(n) == [t |-> "int", v |-> n]
VStr(s) == [t |-> "str", v |-> s]
VBool(b) == [t |-> "bool", v |-> b]
VFloat(n) == [t |-> "float", v |-> n]
VDict(m) == [t |-> "dict", m |-> m]
VLoc(lat, lon) == VDict([latitude |-> VFloat(lat), longitude |-> VFloat(lon)])

\* vehicle_data.proto enum names (generated module, used through .Name())
FieldName(k) ==
    CASE k = 2 -> "ChargeState"
      [] k = 4 -> "VehicleSpeed"
      [] k = 8 -> "Soc"
      [] k = 10 -> "Gear"
      [] k = 21 -> "Location"
      [] OTHER -> "ValueError"

FieldKnown(k) == k \in {2, 4, 8, 10, 21}

ChargingStateName(c) ==
    CASE c = 0 -> "ChargeStateUnknown"
      [] c = 1 -> "ChargeStateDisconnected"
      [] c = 2 -> "ChargeStateNoPower"
      [] c = 3 -> "ChargeStateStarting"
      [] c = 4 -> "ChargeStateCharging"
      [] c = 5 -> "ChargeStateComplete"
      [] OTHER -> "ChargeStateStopped"

ShiftStateName(c) ==
    CASE c = 0 -> "ShiftStateUnknown"
      [] c = 1 -> "ShiftStateInvalid"
      [] c = 2 -> "ShiftStateP"
      [] c = 3 -> "ShiftStateR"
      [] c = 4 -> "ShiftStateN"
      [] c = 5 -> "ShiftStateD"
      [] OTHER -> "ShiftStateSNA"

\* TeslaKafkaConsumer._extract_value: a Value message [which, v] to a value
ExtractValue(value_msg) ==
    LET which == value_msg.which IN
    CASE which \in {"unset", "invalid"} -> VNone
      [] which = "string_value" -> VStr(value_msg.v)
      [] which \in {"int_value", "long_value"} -> VInt(value_msg.v)
      [] which \in {"float_value", "double_value"} -> VFloat(value_msg.v)
      [] which = "boolean_value" -> VBool(value_msg.v)
      [] which = "location_value" -> VLoc(value_msg.v[1], value_msg.v[2])
      [] which = "charging_value" -> VStr(ChargingStateName(value_msg.v))
      [] which = "shift_state_value" -> VStr(ShiftStateName(value_msg.v))
      [] OTHER -> VInt(value_msg.v)

\* ------------------------------------------------------------------------
\* TeslaKafkaConsumer._parse_protobuf
NoData == [parsed |-> FALSE, d |-> <<>>]

RECURSIVE DatumKeysKnown(_)
DatumKeysKnown(data) ==
    IF data = <<>> THEN TRUE
    ELSE FieldKnown(Head(data).key) /\ DatumKeysKnown(Tail(data))

\* the dict after the "for datum in payload.data" loop, from dict d
RECURSIVE AddDatums(_, _)
AddDatums(d, data) ==
    IF data = <<>> THEN d
    ELSE LET field_name == FieldName(Head(data).key)
             value == ExtractValue(Head(data).value)
             d1 == IF value # VNone
                   THEN [k \in DOMAIN d \cup {field_name} |->
                            IF k = field_name THEN value ELSE d[k]]
                   ELSE d
         IN AddDatums(d1, Tail(data))

\* a dict is a function from its keys; the empty dict has the empty domain
EmptyDict == [k \in {} |-> VNone]

DictSet(d, key, value) ==
    [k \in DOMAIN d \cup {key} |-> IF k = key THEN value ELSE d[k]]

ParseProtobuf(raw_data) ==
    IF ~raw_data.ok THEN NoData
    ELSE IF ~DatumKeysKnown(raw_data.data) THEN NoData
    ELSE LET d0 == IF raw_data.vin # ""
                   THEN DictSet(EmptyDict, "vin", VStr(raw_data.vin))
                   ELSE EmptyDict
             d1 == IF raw_data.has_created_at
                   THEN DictSet(d0, "timestamp", VInt(raw_data.seconds))
                   ELSE d0
         IN [parsed |-> TRUE, d |-> AddDatums(d1, raw_data.data)]

\* ------------------------------------------------------------------------
\* The callback registry: a sequence of [key, cbs] in dict insertion order
KeyIndex(reg, data_type) ==
    IF \E i \in 1..Len(reg) : reg[i].key = data_type
    THEN CHOOSE i \in 1..Len(reg) : reg[i].key = data_type
    ELSE 0

RegisterCallbackFirst(reg, data_type, cb) ==
    LET i == KeyIndex(reg, data_type) IN
    IF i = 0 THEN Append(reg, [key |-> data_type, cbs |-> <<cb>>])
    ELSE [reg EXCEPT ![i].cbs = <<cb>> \o @]

\* register_callback (both classes)
RegisterCallback(reg, data_type, cb) ==
    LET i == KeyIndex(reg, data_type) IN
    IF i = 0 THEN Append(reg, [key |-> data_type, cbs |-> <<cb>>])
    ELSE [reg EXCEPT ![i].cbs = Append(@, cb)]

RegCount(reg) ==
    LET RECURSIVE Sum(_)
        Sum(i) == IF i = 0 THEN 0 ELSE Len(reg[i].cbs) + Sum(i - 1)
    IN Sum(Len(reg))

\* ------------------------------------------------------------------------
\* TeslaKafkaConsumer._notify_callbacks, one callback invocation at a time.
\* A position is <<ki, ci>>: callback ci of registry entry ki; <<0, 0>> is
\* the end of the iteration.
EndPos == <<0, 0>>

\* first entry at index >= ki whose data_type is a key of the dict
NextKey(reg, d, ki) ==
    LET S == {i \in ki..Len(reg) : reg[i].key \in DOMAIN d} IN
    IF S = {} THEN 0 ELSE CHOOSE i \in S : \A j \in S : i <= j

FirstPos(reg, d) ==
    LET ki == NextKey(reg, d, 1) IN
    IF ki = 0 THEN EndPos ELSE <<ki, 1>>

NextPosAbortOnRaise(reg, d, pos, raised) ==
    IF raised THEN EndPos
    ELSE IF pos[2] < Len(reg[pos[1]].cbs) THEN <<pos[1], pos[2] + 1>>
    ELSE LET ki == NextKey(reg, d, pos[1] + 1) IN
         IF ki = 0 THEN EndPos ELSE <<ki, 1>>

\* the position after callback pos returned or raised
NextPos(reg, d, pos, raised) ==
    IF pos[2] < Len(reg[pos[1]].cbs) THEN <<pos[1], pos[2] + 1>>
    ELSE LET ki == NextKey(reg, d, pos[1] + 1) IN
         IF ki = 0 THEN EndPos ELSE <<ki, 1>>

\* _process_message up to its first suspension: where dispatch starts
StartPos(reg, record) ==
    LET p == ParseProtobuf(record) IN
    IF ~p.parsed THEN EndPos ELSE FirstPos(reg, p.d)

\* the records of a batch that run to completion without suspending are
\* consumed by the "for record in records" loop at once
SkipRecordsAbort(reg, batch) ==
    IF batch = <<>> THEN <<>>
    ELSE IF ~ParseProtobuf(Head(batch)).parsed THEN <<>>
    ELSE batch

RECURSIVE SkipRecords(_, _)
SkipRecords(reg, batch) ==
    IF batch = <<>> THEN <<>>
    ELSE IF StartPos(reg, Head(batch)) = EndPos
         THEN SkipRecords(reg, Tail(batch))
         ELSE batch

RECURSIVE LastSkipped(_, _, _)
LastSkipped(reg, batch, last) ==
    IF batch = <<>> THEN last
    ELSE IF StartPos(reg, Head(batch)) = EndPos
         THEN LastSkipped(reg, Tail(batch),
                          [record |-> <<Head(batch)>>,
                           more |-> Tail(batch) # <<>>,
                           data |-> ParseProtobuf(Head(batch)),
                           calls |-> <<>>])
         ELSE last

\* ------------------------------------------------------------------------
\* Task records
IdleTask(pc) ==
    [pc |-> pc, batch |-> <<>>, pos |-> EndPos, calls |-> <<>>,
     closing |-> NoHandle, pollOpen |-> FALSE, delay |-> 0]

\* where _connect_and_consume suspends next when it re-evaluates
\* "while self._running" with the given flag and consumer
TopTask(run, cons, open) ==
    IF ~run THEN IdleTask("done")
    ELSE IF cons = NoHandle THEN IdleTask("connecting")
    ELSE [IdleTask("polling") EXCEPT !.pollOpen = cons \in open]

\* the task after a batch (or what is left of one) is handed to the for loop
BatchTask(reg, batch, run, cons, open) ==
    LET rest == SkipRecords(reg, batch) IN
    IF rest = <<>> THEN TopTask(run, cons, open)
    ELSE [IdleTask("dispatch") EXCEPT !.batch = rest,
                                      !.pos = StartPos(reg, Head(rest))]

\* record: the raw record; more: the batch had further records after it
NoMsg == [record |-> <<>>, more |-> FALSE, data |-> NoData, calls |-> <<>>]

NoMessage == [topic |-> <<>>, payload |-> [kind |-> "none", val |-> VNone]]

NoMqttMsg ==
    [handler |-> "none", field |-> "", value |-> VNone, notified |-> FALSE,
     calls |-> <<>>, msg |-> NoMessage]

\* nothing subscribed yet: collected are the handles appended to
\* _unsubscribes so far, calls how often each was called, stops the calls of
\* stop() since the last start() (2 for two or more), raised whether a
\* handle raised in one of them
NoUnsubLog ==
    [collected |-> {}, calls |-> <<>>, stops |-> 0, raised |-> FALSE]

\* TeslaTelemetryConfigFlow.__init__; input is the VIN the user typed last
NoFlow == [step |-> "user", errors |-> "", vin |-> <<>>, input |-> <<>>]

\* no entity has been created yet; received and last_field record what the
\* transport delivered: the latest value of each field and the field of the
\* latest message
NoEntity ==
    [sensor_key |-> "none", state |-> FALSE, data_cache |-> EmptyDict,
     last_updated |-> VNone, last_message_time |-> VNone,
     received |-> EmptyDict, last_field |-> ""]

\* TeslaSwitch.__init__; get and post are the responses the last command
\* met, cmd the last command
NoSwitch ==
    [switch_key |-> "none", is_on |-> FALSE, vehicle_id |-> VNone,
     pc |-> "idle", cmd |-> "none", wrote |-> FALSE,
     get |-> "none", post |-> "none"]

\* TeslaSensor.__init__; wrote tells whether the last update_value issued
\* async_write_ha_state, propagated whether it raised to its caller, value
\* is the value it received
NoSensor ==
    [field_name |-> "none", state |-> VNone, last_updated |-> VNone,
     wrote |-> FALSE, propagated |-> FALSE, value |-> VNone]

\* TeslaDeviceTracker.__init__; data is the message update_location
\* received last
NoTracker ==
    [created |-> FALSE, latitude |-> VNone, longitude |-> VNone,
     accuracy |-> 10, attributes |-> EmptyDict, wrote |-> FALSE,
     data |-> EmptyDict]

\* no options flow is open; entry_options are the options of the config
\* entry, data and errors the flow's _data and _errors["base"], clients the
\* TeslaAPIClient objects the last step created, apply the outcome of the
\* last step's attempt to apply a configuration, before the entry options
\* when that step began
NoOptions ==
    [step |-> "none", errors |-> "", data |-> EmptyDict,
     entry_options |-> EmptyDict, clients |-> <<>>, apply |-> "none",
     before |-> EmptyDict]

InitState ==
    /\ switch = NoSwitch
    /\ sensor = NoSensor
    /\ tracker = NoTracker
    /\ options = NoOptions
    /\ now = 0
    /\ flow = NoFlow
    /\ entity = NoEntity
    /\ lastCall = "none"
    /\ setup = "platforms"
    /\ regLog = <<>>
    /\ callbacks = <<>>
    /\ running = FALSE
    /\ reconnect_attempts = 0
    /\ consumer = NoHandle
    /\ openHandles = {}
    /\ nextHandle = 1
    /\ task = [t \in Tasks |-> IdleTask("none")]
    /\ lastMsg = NoMsg
    /\ stopRequested = FALSE
    /\ mqtt_callbacks = <<>>
    /\ unsubscribes = <<>>
    /\ connected = FALSE
    /\ subs = {}
    /\ nextSub = 1
    /\ mqttLast = NoMqttMsg
    /\ unsubLog = NoUnsubLog

Init ==
    /\ transport = "kafka"
    /\ InitState

\* ------------------------------------------------------------------------
\* the platforms pass entity.update_value to register_callback; a stored
\* callback is identified by the number of the call that registered it
NewCallback == Len(regLog) + 1

RegisterLate(data_type) ==
    /\ transport = "kafka"
    /\ RegCount(callbacks) < MaxRegs
    /\ callbacks' = RegisterCallback(callbacks, data_type, NewCallback)
    /\ regLog' = Append(regLog, [key |-> data_type, cb |-> NewCallback])
    /\ UNCHANGED entityVars
    /\ UNCHANGED <<transport, setup, running, reconnect_attempts, consumer,
                   openHandles, nextHandle, task, lastMsg, stopRequested,
                   mqttVars>>

\* Platform setup registers the entities' callbacks with the Kafka consumer
Register(data_type) ==
    /\ transport = "kafka"
    /\ setup = "platforms"
    /\ RegCount(callbacks) < MaxRegs
    /\ callbacks' = RegisterCallback(callbacks, data_type, NewCallback)
    /\ regLog' = Append(regLog, [key |-> data_type, cb |-> NewCallback])
    /\ UNCHANGED entityVars
    /\ UNCHANGED <<transport, setup, running, reconnect_attempts, consumer,
                   openHandles, nextHandle, task, lastMsg, stopRequested,
                   mqttVars>>

\* async_setup_entry: the platforms are loaded, the transport may be started
PlatformsLoaded ==
    /\ setup = "platforms"
    /\ setup' = "loaded"
    /\ UNCHANGED entityVars
    /\ UNCHANGED <<transport, regLog, kafkaVars, mqttVars>>

StartResetsCounter ==
    /\ transport = "kafka"
    /\ setup = "loaded"
    /\ \E t \in Tasks :
        /\ task[t].pc = "none"
        /\ \A u \in Tasks : u < t => task[u].pc # "none"
        /\ task' = [task EXCEPT ![t] = IdleTask("created")]
    /\ running' = TRUE
    /\ stopRequested' = FALSE
    /\ reconnect_attempts' = 0
    /\ UNCHANGED entityVars
    /\ UNCHANGED <<setupVars, callbacks, consumer, openHandles, nextHandle,
                   lastMsg, mqttVars>>

\* TeslaKafkaConsumer.start
Start ==
    /\ transport = "kafka"
    /\ setup = "loaded"
    /\ \E t \in Tasks :
        /\ task[t].pc = "none"
        /\ \A u \in Tasks : u < t => task[u].pc # "none"
        /\ task' = [task EXCEPT ![t] = IdleTask("created")]
    /\ running' = TRUE
    /\ stopRequested' = FALSE
    /\ UNCHANGED entityVars
    /\ UNCHANGED <<setupVars, callbacks, reconnect_attempts, consumer,
                   openHandles, nextHandle, lastMsg, mqttVars>>

\* TeslaKafkaConsumer.stop
Stop ==
    /\ transport = "kafka"
    /\ setup = "loaded"
    /\ running' = FALSE
    /\ openHandles' = openHandles \ {consumer}
    /\ stopRequested' = TRUE
    /\ UNCHANGED entityVars
    /\ UNCHANGED <<setupVars, callbacks, reconnect_attempts, consumer,
                   nextHandle, task, lastMsg, mqttVars>>

\* the task created by start() runs for the first time
TaskBegin(t) ==
    /\ task[t].pc = "created"
    /\ task' = [task EXCEPT ![t] = TopTask(running, consumer, openHandles)]
    /\ UNCHANGED entityVars
    /\ UNCHANGED <<setupVars, callbacks, running, reconnect_attempts, consumer,
                   openHandles, nextHandle, lastMsg, stopRequested, mqttVars>>

GiveUpLate(attempts) == attempts > MAX_RECONNECT_ATTEMPTS + 1

GiveUpEarly(attempts) == attempts >= MAX_RECONNECT_ATTEMPTS

\* _handle_reconnect: the retry ceiling test
GiveUp(attempts) == attempts > MAX_RECONNECT_ATTEMPTS

RECURSIVE Pow2(_)
Pow2(n) == IF n = 0 THEN 1 ELSE 2 * Pow2(n - 1)

DelayExponential(attempts) == RECONNECT_DELAY * Pow2(attempts - 1)

\* _handle_reconnect: the seconds to sleep before the next attempt
Delay(attempts) == RECONNECT_DELAY * attempts

\* TeslaKafkaConsumer._handle_reconnect up to its first suspension, entered
\* with _consumer = cons: the new counter, flag and task
HandleReconnect(t, cons) ==
    /\ reconnect_attempts' = reconnect_attempts + 1
    /\ IF GiveUp(reconnect_attempts + 1)
       THEN /\ running' = FALSE
            /\ task' = [task EXCEPT ![t] = IdleTask("done")]
       ELSE /\ running' = running
            /\ task' = [task EXCEPT ![t] =
                          IF cons # NoHandle
                          THEN [IdleTask("closing") EXCEPT
                                   !.closing = cons,
                                   !.delay = Delay(reconnect_attempts + 1)]
                          ELSE [IdleTask("backoff") EXCEPT
                                   !.delay = Delay(reconnect_attempts + 1)]]

\* _connect: the executor job created the KafkaConsumer
ConnectOk(t) ==
    /\ task[t].pc = "connecting"
    /\ nextHandle <= MaxHandles
    /\ consumer' = nextHandle
    /\ openHandles' = openHandles \cup {nextHandle}
    /\ nextHandle' = nextHandle + 1
    /\ reconnect_attempts' = 0
    /\ task' = [task EXCEPT ![t] =
                  TopTask(running, nextHandle, openHandles \cup {nextHandle})]
    /\ UNCHANGED entityVars
    /\ UNCHANGED <<setupVars, callbacks, running, lastMsg, stopRequested,
                   mqttVars>>

\* _connect: creating the KafkaConsumer raised
ConnectFail(t) ==
    /\ task[t].pc = "connecting"
    /\ consumer' = NoHandle
    /\ HandleReconnect(t, NoHandle)
    /\ UNCHANGED entityVars
    /\ UNCHANGED <<setupVars, callbacks, openHandles, nextHandle, lastMsg,
                   stopRequested, mqttVars>>

\* _handle_reconnect: the executor closed the old consumer
CloseDone(t) ==
    /\ task[t].pc = "closing"
    /\ openHandles' = openHandles \ {task[t].closing}
    /\ consumer' = NoHandle
    /\ task' = [task EXCEPT ![t] =
                  [IdleTask("backoff") EXCEPT !.delay = task[t].delay]]
    /\ UNCHANGED entityVars
    /\ UNCHANGED <<setupVars, callbacks, running, reconnect_attempts,
                   nextHandle, lastMsg, stopRequested, mqttVars>>

\* _handle_reconnect: asyncio.sleep(delay) returned
BackoffDone(t) ==
    /\ task[t].pc = "backoff"
    /\ task' = [task EXCEPT ![t] = TopTask(running, consumer, openHandles)]
    /\ UNCHANGED entityVars
    /\ UNCHANGED <<setupVars, callbacks, running, reconnect_attempts, consumer,
                   openHandles, nextHandle, lastMsg, stopRequested, mqttVars>>

\* _consume_messages: poll returned a batch (empty on timeout)
PollOk(t, batch) ==
    /\ task[t].pc = "polling"
    /\ task[t].pollOpen
    /\ task' = [task EXCEPT ![t] =
                  BatchTask(callbacks, batch, running, consumer, openHandles)]
    /\ lastMsg' = LastSkipped(callbacks, batch, lastMsg)
    /\ UNCHANGED entityVars
    /\ UNCHANGED <<setupVars, callbacks, running, reconnect_attempts, consumer,
                   openHandles, nextHandle, stopRequested, mqttVars>>

\* _consume_messages: poll raised
PollFail(t) ==
    /\ task[t].pc = "polling"
    /\ HandleReconnect(t, consumer)
    /\ UNCHANGED entityVars
    /\ UNCHANGED <<setupVars, callbacks, consumer, openHandles, nextHandle,
                   lastMsg, stopRequested, mqttVars>>

\* _notify_callbacks: one callback is awaited; it returns or raises
Invoke(t, raised) ==
    /\ task[t].pc = "dispatch"
    /\ LET d == ParseProtobuf(Head(task[t].batch)).d
           pos == task[t].pos
           entry == callbacks[pos[1]]
           call == [cb |-> entry.cbs[pos[2]], key |-> entry.key,
                    value |-> d[entry.key], data |-> d, raised |-> raised]
           calls == Append(task[t].calls, call)
           next == NextPos(callbacks, d, pos, raised)
       IN IF next # EndPos
          THEN /\ task' = [task EXCEPT ![t].pos = next, ![t].calls = calls]
               /\ lastMsg' = lastMsg
          ELSE /\ task' = [task EXCEPT ![t] =
                             BatchTask(callbacks, Tail(task[t].batch),
                                       running, consumer, openHandles)]
               /\ lastMsg' = LastSkipped(callbacks, Tail(task[t].batch),
                                [record |-> <<Head(task[t].batch)>>,
                                 more |-> Tail(task[t].batch) # <<>>,
                                 data |-> [parsed |-> TRUE, d |-> d],
                                 calls |-> calls])
    /\ UNCHANGED entityVars
    /\ UNCHANGED <<setupVars, callbacks, running, reconnect_attempts, consumer,
                   openHandles, nextHandle, stopRequested, mqttVars>>

\* ------------------------------------------------------------------------
\* Inputs of the consumer life-cycle specification
Datum(key, which, v) == [key |-> key, value |-> [which |-> which, v |-> v]]

Payload(vin, has_ts, data) ==
    [ok |-> TRUE, vin |-> vin, has_created_at |-> has_ts, seconds |-> 1700,
     data |-> data]

Garbage ==
    [ok |-> FALSE, vin |-> "", has_created_at |-> FALSE, seconds |-> 0,
     data |-> <<>>]

SocRecord == Payload(VehicleVin, TRUE, <<Datum(8, "int_value", 80)>>)

\* a payload with a Field number the generated module does not know
UnknownKeyRecord ==
    Payload(VehicleVin, TRUE,
            <<Datum(999, "int_value", 1), Datum(8, "int_value", 80)>>)

\* a poll that times out, or returns one record, or an unparsable record
\* followed by a good one
LifeBatches == {<<>>, <<SocRecord>>, <<Garbage, SocRecord>>}

Batches(R) == UNION {[1..n -> R] : n \in 0..MaxBatch}

\* the sensor platform registers the callback of one entity
RegisterOne ==
    /\ callbacks = <<>>
    /\ Register("Soc")

\* the platform setup ends after the entity has registered its callback
SetupDone ==
    /\ callbacks # <<>>
    /\ PlatformsLoaded

Next ==
    \/ RegisterOne
    \/ SetupDone
    \/ Start
    \/ Stop
    \/ \E t \in Tasks : TaskBegin(t)
    \/ \E t \in Tasks : ConnectOk(t)
    \/ \E t \in Tasks : ConnectFail(t)
    \/ \E t \in Tasks : CloseDone(t)
    \/ \E t \in Tasks : BackoffDone(t)
    \/ \E t \in Tasks : \E batch \in LifeBatches : PollOk(t, batch)
    \/ \E t \in Tasks : PollFail(t)
    \/ \E t \in Tasks : \E raised \in BOOLEAN : Invoke(t, raised)

Spec == Init /\ [][Next]_vars

\* every await of a task returns and the event loop then runs the task:
\* asyncio.sleep(delay) returns once the delay has elapsed, executor jobs
\* and callbacks finish, a poll returns records or raises
Fairness ==
    \A t \in Tasks :
       /\ WF_vars(TaskBegin(t))
       /\ WF_vars(ConnectOk(t) \/ ConnectFail(t))
       /\ WF_vars(CloseDone(t))
       /\ WF_vars(BackoffDone(t))
       /\ WF_vars(PollFail(t) \/ \E batch \in LifeBatches : PollOk(t, batch))
       /\ WF_vars(\E raised \in BOOLEAN : Invoke(t, raised))

SpecLive == Init /\ [][Next]_vars /\ Fairness

\* ------------------------------------------------------------------------
\* The MQTT client (mqtt_client.py)

\* start() subscribes to these three topic patterns, in this order
SubKinds == <<"metrics", "connectivity", "alerts">>

TopicBase == "tesla"

\* does a topic (a sequence of levels) match the pattern of a subscription
TopicMatches(kind, topic) ==
    CASE kind = "metrics" ->
            /\ Len(topic) >= 3
            /\ SubSeq(topic, 1, 3) = <<TopicBase, VehicleVin, "v">>
      [] kind = "connectivity" ->
            topic = <<TopicBase, VehicleVin, "connectivity">>
      [] OTHER ->
            /\ Len(topic) >= 3
            /\ SubSeq(topic, 1, 3) = <<TopicBase, VehicleVin, "alerts">>

MqttExtractValueRaw(payload) == payload

\* TeslaMQTTClient._extract_value
MqttExtractValue(payload) ==
    IF payload.t = "dict"
    THEN IF "value" \in DOMAIN payload.m THEN payload.m["value"] ELSE payload
    ELSE payload

\* TeslaMQTTClient._notify_callbacks: the calls made from callback j on;
\* the callbacks in raisers raise when called
RECURSIVE NotifyFrom(_, _, _, _, _)
NotifyFrom(cbs, j, field_name, value, raisers) ==
    IF j > Len(cbs) THEN <<>>
    ELSE <<[cb |-> cbs[j], key |-> field_name, value |-> value,
            data |-> DictSet(DictSet(EmptyDict, "timestamp", VNone),
                             field_name, value),
            raised |-> cbs[j] \in raisers]>>
         \o NotifyFrom(cbs, j + 1, field_name, value, raisers)

MqttNotifyCallbacks(reg, field_name, value, raisers) ==
    LET i == KeyIndex(reg, field_name) IN
    IF i = 0 THEN <<>>
    ELSE NotifyFrom(reg[i].cbs, 1, field_name, value, raisers)

\* TeslaMQTTClient._handle_metrics_message
HandleMetricsMessage(reg, msg, raisers) ==
    IF Len(msg.topic) < 4 \/ msg.payload.kind = "bad"
    THEN [NoMqttMsg EXCEPT !.handler = "metrics", !.msg = msg]
    ELSE LET field_name == msg.topic[Len(msg.topic)]
             value == MqttExtractValue(msg.payload.val)
         IN [handler |-> "metrics", field |-> field_name, value |-> value,
             notified |-> TRUE, msg |-> msg,
             calls |-> MqttNotifyCallbacks(reg, field_name, value, raisers)]

\* str.lower(), on the strings the model uses
Lower(str) ==
    CASE str \in {"connected", "Connected", "CONNECTED"} -> "connected"
      [] str \in {"disconnected", "Disconnected"} -> "disconnected"
      [] str \in {"charging", "Charging"} -> "charging"
      [] str = "Starting" -> "starting"
      [] str = "Complete" -> "complete"
      [] str = "Stopped" -> "stopped"
      [] str = "D" -> "d"
      [] str = "N" -> "n"
      [] str = "P" -> "p"
      [] str = "R" -> "r"
      [] OTHER -> str

\* TeslaMQTTClient._handle_connectivity_message
HandleConnectivityMessage(reg, msg, raisers) ==
    IF msg.payload.kind # "json" \/ msg.payload.val.t # "dict"
    THEN [NoMqttMsg EXCEPT !.handler = "connectivity", !.msg = msg]
    ELSE LET m == msg.payload.val.m
             status == IF "Status" \in DOMAIN m THEN m["Status"] ELSE VStr("")
         IN IF status.t # "str"
            THEN [NoMqttMsg EXCEPT !.handler = "connectivity", !.msg = msg]
            ELSE LET is_connected == VBool(Lower(status.v) = "connected")
                 IN [handler |-> "connectivity", field |-> "connectivity",
                     value |-> is_connected, notified |-> TRUE, msg |-> msg,
                     calls |-> MqttNotifyCallbacks(reg, "connectivity",
                                                   is_connected, raisers)]

\* TeslaMQTTClient._handle_alerts_message
HandleAlertsMessage(msg) ==
    [NoMqttMsg EXCEPT !.handler = "alerts", !.msg = msg]

SubIds == 1..(3 * MaxStarts)

SeqRange(q) == {q[i] : i \in 1..Len(q)}

\* Platform setup registers the entities' callbacks with the MQTT client
MqttRegister(data_type) ==
    /\ transport = "mqtt"
    /\ setup = "platforms"
    /\ RegCount(mqtt_callbacks) < MaxRegs
    /\ mqtt_callbacks' =
           RegisterCallback(mqtt_callbacks, data_type, NewCallback)
    /\ regLog' = Append(regLog, [key |-> data_type, cb |-> NewCallback])
    /\ UNCHANGED entityVars
    /\ UNCHANGED <<transport, setup, kafkaVars, unsubscribes, connected, subs,
                   nextSub, mqttLast, unsubLog>>

\* TeslaMQTTClient.start: the first n subscriptions succeed; with n < 3 the
\* next one raises
MqttStart(n) ==
    /\ transport = "mqtt"
    /\ setup = "loaded"
    /\ nextSub + 2 <= 3 * MaxStarts
    /\ subs' = subs \cup {[id |-> nextSub + i - 1, kind |-> SubKinds[i]] :
                            i \in 1..n}
    /\ unsubscribes' = unsubscribes \o [i \in 1..n |-> nextSub + i - 1]
    /\ nextSub' = nextSub + 3
    /\ connected' = IF n = 3 THEN TRUE ELSE connected
    /\ LET new == {nextSub + i - 1 : i \in 1..n} IN
       unsubLog' =
          [collected |-> unsubLog.collected \cup new,
           calls |-> [id \in unsubLog.collected \cup new |->
                        IF id \in new THEN 0 ELSE unsubLog.calls[id]],
           stops |-> 0, raised |-> FALSE]
    /\ UNCHANGED entityVars
    /\ UNCHANGED <<setupVars, kafkaVars, mqtt_callbacks, mqttLast>>

UnsubscribedUntilRaise(handles, raiser) ==
    IF raiser = 0 THEN SeqRange(handles)
    ELSE {handles[i] : i \in {j \in 1..Len(handles) :
                                \A k \in 1..(j - 1) : handles[k] # raiser}}

\* stop: "for unsub in self._unsubscribes: try: unsub() except Exception",
\* the handles called when the handle raiser raises (0: none raises)
Unsubscribed(handles, raiser) == SeqRange(handles)

\* TeslaMQTTClient.stop; the handle raiser raises, and kept tells whether
\* its subscription is still active after that
MqttStop(raiser, kept) ==
    /\ transport = "mqtt"
    /\ setup = "loaded"
    /\ raiser = 0 \/ raiser \in SeqRange(unsubscribes)
    /\ kept => raiser # 0
    /\ LET called == Unsubscribed(unsubscribes, raiser) IN
       /\ subs' = {s \in subs : \/ s.id \notin called
                                \/ kept /\ s.id = raiser}
       /\ unsubLog' =
             [unsubLog EXCEPT
                !.calls = [id \in DOMAIN unsubLog.calls |->
                             IF id \in called THEN unsubLog.calls[id] + 1
                             ELSE unsubLog.calls[id]],
                !.stops = IF unsubLog.stops = 0 THEN 1 ELSE 2,
                !.raised = unsubLog.raised \/ raiser # 0]
    /\ unsubscribes' = <<>>
    /\ connected' = FALSE
    /\ UNCHANGED entityVars
    /\ UNCHANGED <<setupVars, kafkaVars, mqtt_callbacks, nextSub, mqttLast>>

\* the callbacks a handler may call for a message
Notified(kind, msg) ==
    LET key == IF kind = "metrics" THEN msg.topic[Len(msg.topic)]
               ELSE "connectivity"
        i == KeyIndex(mqtt_callbacks, key)
    IN IF i = 0 THEN {} ELSE SeqRange(mqtt_callbacks[i].cbs)

\* Home Assistant's MQTT layer calls the handler of one subscription; the
\* callbacks in raisers raise
MqttDeliver(id, msg) ==
    /\ transport = "mqtt"
    /\ \E sub \in subs : \E raisers \in SUBSET Notified(sub.kind, msg) :
        /\ sub.id = id
        /\ TopicMatches(sub.kind, msg.topic)
        /\ mqttLast' =
              CASE sub.kind = "metrics" ->
                      HandleMetricsMessage(mqtt_callbacks, msg, raisers)
                [] sub.kind = "connectivity" ->
                      HandleConnectivityMessage(mqtt_callbacks, msg, raisers)
                [] OTHER -> HandleAlertsMessage(msg)
    /\ UNCHANGED entityVars
    /\ UNCHANGED <<setupVars, kafkaVars, mqtt_callbacks, unsubscribes,
                   connected, subs, nextSub, unsubLog>>

\* ------------------------------------------------------------------------
\* The dispatch specification: either transport, registrations under
\* several names, records and messages of several shapes
DispFields == {"Soc", "Gear", "any", "timestamp"}
DrivingRecord ==
    Payload(VehicleVin, TRUE,
            <<Datum(8, "int_value", 80), Datum(10, "shift_state_value", 5)>>)
ForeignRecord == Payload(OtherVin, FALSE, <<Datum(8, "double_value", 78)>>)
InvalidRecord ==
    Payload("", FALSE, <<Datum(10, "invalid", 0), Datum(8, "int_value", 50)>>)

DispRecords == {DrivingRecord, ForeignRecord, InvalidRecord}

JsonPayload(val) == [kind |-> "json", val |-> val]
TextPayload(txt) == [kind |-> "text", val |-> VStr(txt)]
BadPayload == [kind |-> "bad", val |-> VNone]

Msg(topic, payload) == [topic |-> topic, payload |-> payload]

MetricsTopic(field_name) == <<TopicBase, VehicleVin, "v", field_name>>
ConnectivityTopic == <<TopicBase, VehicleVin, "connectivity">>

DispMessages ==
    { Msg(MetricsTopic("Soc"), JsonPayload(VDict([value |-> VInt(42)]))),
      Msg(MetricsTopic("Soc"), JsonPayload(VInt(65))),
      Msg(MetricsTopic("Soc"), JsonPayload(VDict([value |-> VNone]))),
      Msg(<<TopicBase, VehicleVin, "v", "sub", "Gear">>,
          JsonPayload(VDict([value |-> VStr("P")]))),
      Msg(MetricsTopic("Gear"), TextPayload("D")),
      Msg(MetricsTopic("Gear"), BadPayload),
      Msg(<<TopicBase, VehicleVin, "v">>, JsonPayload(VInt(65))),
      Msg(ConnectivityTopic,
          JsonPayload(VDict([Status |-> VStr("Connected")]))),
      Msg(ConnectivityTopic, JsonPayload(VInt(65))),
      Msg(<<TopicBase, VehicleVin, "alerts", "a1", "current">>,
          JsonPayload(VDict([Name |-> VStr("a1")]))) }

InitDispatch ==
    /\ transport \in {"kafka", "mqtt"}
    /\ InitState

\* the integration calls start() once per consumer (delayed_start)
StartOnce ==
    /\ \A t \in Tasks : task[t].pc = "none"
    /\ Start

\* the integration calls start() once per client (async_setup_entry)
MqttStartOnce(n) ==
    /\ nextSub = 1
    /\ MqttStart(n)

\* stop() where every unsubscribe handle returns normally
MqttStopClean == MqttStop(0, FALSE)

NextDispatch ==
    \/ \E f \in DispFields : Register(f)
    \/ \E f \in DispFields : MqttRegister(f)
    \/ PlatformsLoaded
    \/ StartOnce
    \/ Stop
    \/ \E t \in Tasks : TaskBegin(t)
    \/ \E t \in Tasks : ConnectOk(t)
    \/ \E t \in Tasks : \E batch \in Batches(DispRecords) : PollOk(t, batch)
    \/ \E t \in Tasks : \E raised \in BOOLEAN : Invoke(t, raised)
    \/ \E n \in 0..3 : MqttStartOnce(n)
    \/ MqttStopClean
    \/ \E id \in SubIds : \E msg \in DispMessages : MqttDeliver(id, msg)

SpecDispatch == InitDispatch /\ [][NextDispatch]_vars

\* ------------------------------------------------------------------------
\* The decoding specification: one consumer, started once, that stays
\* connected; polls return one record
\* a datum whose Value holds a oneof member _extract_value has no branch
\* for (an enum of the schema other than ChargingState and ShiftState)
OtherEnumRecord ==
    Payload(VehicleVin, TRUE, <<Datum(2, "detailed_charge_state_value", 3)>>)

\* create_charging_message: the vehicle reports ChargeStateCharging
ChargingRecord == Payload(VehicleVin, TRUE, <<Datum(2, "charging_value", 4)>>)

\* generate_mock_message.add_field: one more Datum with the given oneof
\* member set
AddField(payload, field_key, which, v) ==
    [payload EXCEPT !.data = Append(@, Datum(field_key, which, v))]

\* generate_mock_message.create_driving_message, for the fields of the
\* schema the model knows: Location, VehicleSpeed 65, Gear ShiftStateD,
\* Soc 80, ChargeState ChargeStateDisconnected
CreateDrivingMessage(vin) ==
    LET p0 == Payload(vin, TRUE, <<>>)
        p1 == AddField(p0, 21, "location_value", <<41, 2>>)
        p2 == AddField(p1, 4, "int_value", 65)
        p3 == AddField(p2, 10, "shift_state_value", 5)
        p4 == AddField(p3, 8, "int_value", 80)
    IN AddField(p4, 2, "charging_value", 1)

DecodeRecords ==
    {Garbage, SocRecord, DrivingRecord, UnknownKeyRecord, OtherEnumRecord,
     ChargingRecord, CreateDrivingMessage(VehicleVin)}

NextDecode ==
    \/ \E f \in {"Soc", "Gear"} : Register(f)
    \/ PlatformsLoaded
    \/ StartOnce
    \/ \E t \in Tasks : TaskBegin(t)
    \/ \E t \in Tasks : ConnectOk(t)
    \/ \E t \in Tasks : \E r \in DecodeRecords : PollOk(t, <<r>>)
    \/ \E t \in Tasks : \E raised \in BOOLEAN : Invoke(t, raised)

SpecDecode == Init /\ [][NextDecode]_vars

\* ------------------------------------------------------------------------
\* The MQTT client life cycle: start() and stop() called in any order
InitMqtt ==
    /\ transport = "mqtt"
    /\ InitState

\* location payloads: {"latitude": .., "longitude": ..}, and one that
\* carries the latitude only
LocationMessages ==
    { Msg(MetricsTopic("Location"), JsonPayload(VLoc(41, 2))),
      Msg(MetricsTopic("Location"),
          JsonPayload(VDict([latitude |-> VFloat(41)]))) }

MqttMessages == DispMessages \cup LocationMessages

NextMqtt ==
    \/ \E f \in {"Soc", "Location"} : MqttRegister(f)
    \/ PlatformsLoaded
    \/ \E n \in 0..3 : MqttStart(n)
    \/ MqttStopClean
    \/ \E id \in SubIds : \E msg \in MqttMessages : MqttDeliver(id, msg)

SpecMqtt == InitMqtt /\ [][NextMqtt]_vars

\* The unload specification: the MQTT client is started by setup and
\* stopped by async_unload_entry and async_remove_entry, with unsubscribe
\* handles that may raise
NextUnload ==
    \/ PlatformsLoaded
    \/ \E n \in 0..3 : MqttStart(n)
    \/ \E raiser \in {0} \cup SubIds : \E kept \in BOOLEAN :
          MqttStop(raiser, kept)

SpecUnload == InitMqtt /\ [][NextUnload]_vars

\* ------------------------------------------------------------------------
\* The config flow (config_flow.py): strings are sequences of characters
UpperAlphabet ==
    <<"A", "B", "C", "D", "E", "F", "G", "H", "I", "J", "K", "L", "M",
      "N", "O", "P", "Q", "R", "S", "T", "U", "V", "W", "X", "Y", "Z">>

LowerAlphabet ==
    <<"a", "b", "c", "d", "e", "f", "g", "h", "i", "j", "k", "l", "m",
      "n", "o", "p", "q", "r", "s", "t", "u", "v", "w", "x", "y", "z">>

Digits == {"0", "1", "2", "3", "4", "5", "6", "7", "8", "9"}

Whitespace == {" ", "\t", "\n"}

UpperChar(c) ==
    IF \E i \in 1..26 : LowerAlphabet[i] = c
    THEN UpperAlphabet[CHOOSE i \in 1..26 : LowerAlphabet[i] = c]
    ELSE c

\* str.upper()
Upper(str) == [i \in 1..Len(str) |-> UpperChar(str[i])]

\* str.strip()
RECURSIVE Strip(_)
Strip(str) ==
    IF str = <<>> THEN str
    ELSE IF Head(str) \in Whitespace THEN Strip(Tail(str))
    ELSE IF str[Len(str)] \in Whitespace
         THEN Strip(SubSeq(str, 1, Len(str) - 1))
         ELSE str

\* the character class [A-HJ-NPR-Z0-9]
VinChars ==
    ({UpperAlphabet[i] : i \in 1..26} \ {"I", "O", "Q"}) \cup Digits

\* VIN_REGEX.match: ^[A-HJ-NPR-Z0-9]{17}$ ($ also matches before a final
\* newline)
VinRegexMatch(str) ==
    /\ \/ Len(str) = 17
       \/ Len(str) = 18 /\ str[18] = "\n"
    /\ \A i \in 1..17 : str[i] \in VinChars

\* validate_vin: the error key, "" for None
ValidateVin(vin) ==
    IF vin = <<>> THEN "vin_required"
    ELSE LET v == Strip(Upper(vin)) IN
         IF Len(v) # VIN_LENGTH THEN "vin_invalid_length"
         ELSE IF ~VinRegexMatch(v) THEN "vin_invalid_format"
         ELSE ""

\* async_step_user with user input: the flow aborts without an MQTT entry,
\* else it goes on to the vehicle step
AsyncStepUser(mqtt_configured) ==
    /\ flow.step = "user"
    /\ flow' = [flow EXCEPT !.step = IF mqtt_configured THEN "vehicle"
                                     ELSE "abort"]
    /\ UNCHANGED <<now, entity, lastCall>>
    /\ UNCHANGED <<setupVars, kafkaVars, mqttVars, deviceVars>>

\* async_step_vehicle with user input: the entry is created or the form is
\* shown again with the error
AsyncStepVehicle(user_vin) ==
    /\ flow.step = "vehicle"
    /\ LET vin == Strip(Upper(user_vin))
           error == ValidateVin(vin)
       IN flow' = IF error # ""
                  THEN [flow EXCEPT !.errors = error, !.input = user_vin]
                  ELSE [step |-> "created", errors |-> "", vin |-> vin,
                        input |-> user_vin]
    /\ UNCHANGED <<now, entity, lastCall>>
    /\ UNCHANGED <<setupVars, kafkaVars, mqttVars, deviceVars>>

\* ------------------------------------------------------------------------
\* The binary sensor entities (binary_sensor.py)

\* BINARY_SENSOR_DEFINITIONS: depends_on of the sensors the model follows
DependsOn(sensor_key) ==
    CASE sensor_key = "driving" -> <<"Gear", "VehicleSpeed">>
      [] sensor_key = "charging" -> <<"ChargingState", "ChargeState">>
      [] OTHER -> <<>>

\* dict.get(key, default)
DictGet(d, key, default) == IF key \in DOMAIN d THEN d[key] ELSE default

\* float(x): the number, or ok = FALSE where float raises
ToFloat(value) ==
    CASE value.t \in {"int", "float"} -> [ok |-> TRUE, v |-> value.v]
      [] value.t = "bool" -> [ok |-> TRUE, v |-> IF value.v THEN 1 ELSE 0]
      [] value.t = "str" /\ value.v = "0" -> [ok |-> TRUE, v |-> 0]
      [] value.t = "str" /\ value.v = "65" -> [ok |-> TRUE, v |-> 65]
      [] OTHER -> [ok |-> FALSE, v |-> 0]

CalculateDrivingStateGearFirst(data_cache) ==
    IF "Gear" \in DOMAIN data_cache
    THEN /\ data_cache["Gear"].t = "str"
         /\ Lower(data_cache["Gear"].v) \in {"d", "r", "n"}
    ELSE LET speed == ToFloat(DictGet(data_cache, "VehicleSpeed", VInt(0)))
         IN speed.ok /\ speed.v > 1

\* TeslaBinarySensor._calculate_driving_state
CalculateDrivingState(data_cache) ==
    LET gear == DictGet(data_cache, "Gear", VStr(""))
        speed == ToFloat(DictGet(data_cache, "VehicleSpeed", VInt(0)))
    IN IF gear.t = "str" /\ Lower(gear.v) \in {"d", "r", "n"} THEN TRUE
       ELSE speed.ok /\ speed.v > 1

\* TeslaBinarySensor._calculate_charging_state
CalculateChargingState(data_cache) ==
    \E field \in {"ChargingState", "ChargeState"} :
       LET state == DictGet(data_cache, field, VStr("")) IN
       state.t = "str" /\ Lower(state.v) = "charging"

\* update_value: "for field in self._depends_on: if field in data: ..."
RECURSIVE CacheFields(_, _, _)
CacheFields(data_cache, fields, data) ==
    IF fields = <<>> THEN data_cache
    ELSE CacheFields(IF Head(fields) \in DOMAIN data
                     THEN DictSet(data_cache, Head(fields), data[Head(fields)])
                     ELSE data_cache,
                     Tail(fields), data)

ExpiredLate(time_since_last) == time_since_last > AWAKE_TIMEOUT_MINUTES + 1

\* check_timeout: time_since_last > timedelta(minutes=AWAKE_TIMEOUT_MINUTES)
Expired(time_since_last) == time_since_last > AWAKE_TIMEOUT_MINUTES

\* TeslaBinarySensor.check_timeout at time t
CheckTimeout(e, t) ==
    IF e.sensor_key # "awake" THEN e
    ELSE IF e.last_message_time = VNone THEN [e EXCEPT !.state = FALSE]
    ELSE IF Expired(t - e.last_message_time.v) THEN [e EXCEPT !.state = FALSE]
    ELSE e

\* TeslaBinarySensor.__init__, for one of the sensors the platform creates
\* once the config entry exists
CreateEntity(sensor_key) ==
    /\ flow.step = "created"
    /\ entity = NoEntity
    /\ entity' = [NoEntity EXCEPT !.sensor_key = sensor_key]
    /\ UNCHANGED <<now, flow, lastCall>>
    /\ UNCHANGED <<setupVars, kafkaVars, mqttVars, deviceVars>>

\* the fields a message carries next to its timestamp
DataFields(data) == DOMAIN data \ {"timestamp"}

\* the record of deliveries after the message data
Delivered(e, data) ==
    [e EXCEPT
       !.received = [k \in DOMAIN e.received \cup DataFields(data) |->
                        IF k \in DataFields(data) THEN data[k]
                        ELSE e.received[k]],
       !.last_field = IF DataFields(data) = {} THEN e.last_field
                      ELSE CHOOSE k \in DataFields(data) : TRUE]

\* TeslaBinarySensor.update_value
UpdateValue(value, data) ==
    /\ entity # NoEntity
    /\ LET cache == CacheFields(entity.data_cache,
                                DependsOn(entity.sensor_key), data)
           e1 == [Delivered(entity, data) EXCEPT !.data_cache = cache]
           e2 == CASE entity.sensor_key = "driving" ->
                        [e1 EXCEPT !.state = CalculateDrivingState(cache)]
                   [] entity.sensor_key = "charging" ->
                        [e1 EXCEPT !.state = CalculateChargingState(cache)]
                   [] OTHER ->
                        [e1 EXCEPT !.state = TRUE,
                                   !.last_message_time = VInt(now)]
       IN entity' = [e2 EXCEPT
                       !.last_updated = DictGet(data, "timestamp", VNone)]
    /\ lastCall' = "update_value"
    /\ UNCHANGED <<now, flow>>
    /\ UNCHANGED <<setupVars, kafkaVars, mqttVars, deviceVars>>

\* check_awake_timeout: the periodic call of check_timeout on the awake
\* entity
CheckAwakeTimeout ==
    /\ entity.sensor_key = "awake"
    /\ entity' = CheckTimeout(entity, now)
    /\ lastCall' = "check_timeout"
    /\ UNCHANGED <<now, flow>>
    /\ UNCHANGED <<setupVars, kafkaVars, mqttVars, deviceVars>>

\* a minute passes
Tick ==
    /\ now < MaxNow
    /\ now' = now + 1
    /\ lastCall' = "none"
    /\ UNCHANGED <<flow, entity>>
    /\ UNCHANGED <<setupVars, kafkaVars, mqttVars, deviceVars>>

\* ------------------------------------------------------------------------
\* The switch entities (switch.py)
coreVars == <<setupVars, kafkaVars, mqttVars, now, flow, entity, lastCall>>

\* SWITCH_DEFINITIONS: the telemetry field of a switch, "" for none
TelemetryField(switch_key) ==
    CASE switch_key = "sentry_mode" -> "SentryMode"
      [] switch_key = "charging" -> "ChargeState"
      [] switch_key = "locked" -> "Locked"
      [] OTHER -> ""

SwitchKeys == {"sentry_mode", "climate", "charging", "locked"}

\* responses of GET /api/1/vehicles: the request raises, a status other
\* than 200, a list without the VIN, a list with it
GetResponses == {"raises", "401", "200_other_vin", "200_listed"}

\* responses of the command POST: the request raises, a status other than
\* 200, a body whose result is false or missing, a body whose result is true
PostResponses == {"raises", "500", "200_false", "200_true"}

\* TeslaSwitch._get_vehicle_id: the id, None, or the exception of the request
GetVehicleId(sw, get) ==
    IF sw.vehicle_id # VNone THEN [raised |-> FALSE, id |-> sw.vehicle_id]
    ELSE IF get = "raises" THEN [raised |-> TRUE, id |-> VNone]
    ELSE IF get = "200_listed" THEN [raised |-> FALSE, id |-> VStr("1492")]
    ELSE [raised |-> FALSE, id |-> VNone]

SendCommandAnyStatus(sw, get, post) ==
    LET vehicle == GetVehicleId(sw, get) IN
    IF vehicle.raised \/ vehicle.id = VNone
    THEN [success |-> FALSE, vehicle_id |-> sw.vehicle_id]
    ELSE IF post = "raises" THEN [success |-> FALSE, vehicle_id |-> vehicle.id]
    ELSE [success |-> post # "200_false", vehicle_id |-> vehicle.id]

\* TeslaSwitch._send_command: its return value and the vehicle id cached
SendCommand(sw, get, post) ==
    LET vehicle == GetVehicleId(sw, get) IN
    IF vehicle.raised \/ vehicle.id = VNone
    THEN [success |-> FALSE, vehicle_id |-> sw.vehicle_id]
    ELSE IF post = "raises" THEN [success |-> FALSE, vehicle_id |-> vehicle.id]
    ELSE IF post \in {"200_false", "200_true"}
    THEN [success |-> post = "200_true", vehicle_id |-> vehicle.id]
    ELSE [success |-> FALSE, vehicle_id |-> vehicle.id]

\* async_setup_entry creates the switches; the model follows one of them
CreateSwitch(switch_key) ==
    /\ switch = NoSwitch /\ sensor = NoSensor /\ tracker = NoTracker
    /\ switch' = [NoSwitch EXCEPT !.switch_key = switch_key]
    /\ UNCHANGED <<coreVars, sensor, tracker, options>>

\* async_turn_on, up to "await self._send_command(self._endpoint_on, body)"
AsyncTurnOn ==
    /\ switch # NoSwitch
    /\ switch.pc = "idle"
    /\ switch' = [switch EXCEPT !.pc = "send_command", !.cmd = "turn_on",
                                !.wrote = FALSE]
    /\ UNCHANGED <<coreVars, sensor, tracker, options>>

\* async_turn_off, up to "await self._send_command(self._endpoint_off, body)"
AsyncTurnOff ==
    /\ switch # NoSwitch
    /\ switch.pc = "idle"
    /\ switch' = [switch EXCEPT !.pc = "send_command", !.cmd = "turn_off",
                                !.wrote = FALSE]
    /\ UNCHANGED <<coreVars, sensor, tracker, options>>

\* _send_command returns to async_turn_on / async_turn_off:
\* "if success: self._is_on = ...; self.async_write_ha_state()"
SendCommandReturns(get, post) ==
    /\ switch.pc = "send_command"
    /\ LET r == SendCommand(switch, get, post) IN
       switch' = [switch EXCEPT
                    !.pc = "idle",
                    !.vehicle_id = r.vehicle_id,
                    !.is_on = IF r.success THEN switch.cmd = "turn_on"
                              ELSE switch.is_on,
                    !.wrote = r.success,
                    !.get = IF switch.vehicle_id # VNone THEN "cached"
                            ELSE get,
                    !.post = post]
    /\ UNCHANGED <<coreVars, sensor, tracker, options>>

\* '"on" in value.lower() or "armed" in value.lower()', for the values of
\* the SentryMode field
OnOrArmed(str) == str \in {"SentryModeStateOn", "SentryModeStateArmed"}

\* bool(value)
Truthy(value) ==
    CASE value.t = "bool" -> value.v
      [] value.t = "none" -> FALSE
      [] value.t = "str" -> value.v # ""
      [] value.t \in {"int", "float"} -> value.v # 0
      [] OTHER -> TRUE

\* TeslaSwitch.update_from_telemetry
UpdateFromTelemetry(value) ==
    /\ TelemetryField(switch.switch_key) # ""
    /\ switch' =
          [switch EXCEPT
             !.is_on =
                CASE switch.switch_key = "sentry_mode" ->
                        IF value.t = "str" THEN OnOrArmed(value.v)
                        ELSE Truthy(value)
                  [] switch.switch_key = "charging" ->
                        IF value.t = "str" THEN Lower(value.v) = "charging"
                        ELSE Truthy(value)
                  [] OTHER -> Truthy(value),
             !.wrote = TRUE]
    /\ UNCHANGED <<coreVars, sensor, tracker, options>>

TelemetryValues ==
    {VStr("SentryModeStateOn"), VStr("SentryModeStateOff"), VStr("Charging"),
     VBool(TRUE), VBool(FALSE)}

\* ------------------------------------------------------------------------
\* The sensor entities (sensor.py)

\* the exception float(value) raises where ToFloat is not ok
FloatError(value) == IF value.t = "str" THEN "ValueError" ELSE "TypeError"

\* str(value).upper(), for the values the model sends
StrUpper(value) ==
    CASE value = VStr("n/a") -> "N/A"
      [] value = VStr("d") -> "D"
      [] value.t = "str" -> value.v
      [] value = VInt(80) -> "80"
      [] value = VBool(TRUE) -> "TRUE"
      [] OTHER -> "{'LATITUDE': 41.0, 'LONGITUDE': 2.0}"

\* round(float(value), 1): the float, or the exception float raises
RoundFloat(value) ==
    LET f == ToFloat(value) IN
    IF f.ok THEN [ok |-> TRUE, v |-> VFloat(f.v), err |-> ""]
    ELSE [ok |-> FALSE, v |-> VNone, err |-> FloatError(value)]

\* the state update_value computes for a field: the branches for Gear,
\* Soc and VehicleSpeed
NewState(field_name, value) ==
    CASE field_name = "Gear" ->
            [ok |-> TRUE, err |-> "",
             v |-> IF Truthy(value) THEN VStr(StrUpper(value)) ELSE VStr("P")]
      [] field_name = "Soc" ->
            IF value = VNone THEN [ok |-> TRUE, v |-> VNone, err |-> ""]
            ELSE RoundFloat(value)
      [] OTHER ->
            IF value = VNone THEN [ok |-> TRUE, v |-> VInt(0), err |-> ""]
            ELSE RoundFloat(value)

CaughtValueErrorOnly(err) == err = "ValueError"

\* "except (ValueError, TypeError) as err"
Caught(err) == err \in {"ValueError", "TypeError"}

\* async_setup_entry creates the sensors; the model follows one of them
CreateSensor(field_name) ==
    /\ switch = NoSwitch /\ sensor = NoSensor /\ tracker = NoTracker
    /\ sensor' = [NoSensor EXCEPT !.field_name = field_name]
    /\ UNCHANGED <<coreVars, switch, tracker, options>>

\* TeslaSensor.update_value
SensorUpdateValue(value, data) ==
    /\ sensor # NoSensor
    /\ LET new == NewState(sensor.field_name, value)
           s1 == [sensor EXCEPT !.value = value]
       IN sensor' =
             IF new.ok
             THEN [s1 EXCEPT !.state = new.v,
                             !.last_updated = DictGet(data, "timestamp", VNone),
                             !.wrote = TRUE, !.propagated = FALSE]
             ELSE [s1 EXCEPT !.wrote = FALSE,
                             !.propagated = ~Caught(new.err)]
    /\ UNCHANGED <<coreVars, switch, tracker, options>>

\* the client calls update_value with the value of the sensor's field
UpdateSensor(value, timestamp) ==
    SensorUpdateValue(value,
                      DictSet(DictSet(EmptyDict, "timestamp", timestamp),
                              sensor.field_name, value))

SensorFields == {"Soc", "VehicleSpeed", "Gear"}

\* values a sensor receives: numbers, numerals, text, None, a bool and a
\* location dict
SensorValues ==
    {VFloat(78), VInt(80), VStr("65"), VStr("n/a"), VStr("d"), VNone,
     VBool(TRUE), VLoc(41, 2)}

\* the timestamps of the context: None (MQTT client), or a time (tests)
Timestamps == {VNone, VStr("2024-01-15T10:30:00Z")}

\* ------------------------------------------------------------------------
\* The device tracker (device_tracker.py)

\* TeslaDeviceTracker.available
Available(tr) == tr.latitude # VNone /\ tr.longitude # VNone

\* int(value): the integer, or ok = FALSE where int raises
ToInt(value) ==
    CASE value.t \in {"int", "float"} -> [ok |-> TRUE, v |-> value.v]
      [] value.t = "bool" -> [ok |-> TRUE, v |-> IF value.v THEN 1 ELSE 0]
      [] value.t = "str" /\ value.v = "65" -> [ok |-> TRUE, v |-> 65]
      [] OTHER -> [ok |-> FALSE, v |-> 0]

\* the "Latitude" and "Longitude" block of update_location
SetCoordinates(tr, data) ==
    IF "Latitude" \in DOMAIN data /\ "Longitude" \in DOMAIN data
    THEN LET lat == ToFloat(data["Latitude"])
             lon == ToFloat(data["Longitude"])
         IN IF ~lat.ok THEN [ok |-> FALSE, tr |-> tr]
            ELSE IF ~lon.ok
            THEN [ok |-> FALSE,
                  tr |-> [tr EXCEPT !.latitude = VFloat(lat.v)]]
            ELSE [ok |-> TRUE,
                  tr |-> [tr EXCEPT !.latitude = VFloat(lat.v),
                                    !.longitude = VFloat(lon.v)]]
    ELSE [ok |-> TRUE, tr |-> tr]

\* the "Heading", "Speed" and "GpsAccuracy" blocks of update_location
SetAttributes(tr, data) ==
    LET a1 == IF "Heading" \in DOMAIN data
              THEN DictSet(tr.attributes, "heading", data["Heading"])
              ELSE tr.attributes
        a2 == IF "Speed" \in DOMAIN data
              THEN DictSet(a1, "speed", data["Speed"])
              ELSE a1
        t2 == [tr EXCEPT !.attributes = a2]
    IN IF "GpsAccuracy" \in DOMAIN data
       THEN LET acc == ToInt(data["GpsAccuracy"]) IN
            IF ~acc.ok THEN [ok |-> FALSE, tr |-> t2]
            ELSE [ok |-> TRUE,
                  tr |-> [t2 EXCEPT
                            !.accuracy = acc.v,
                            !.attributes =
                               DictSet(a2, "gps_accuracy", VInt(acc.v))]]
       ELSE [ok |-> TRUE, tr |-> t2]

\* async_setup_platform creates the tracker
CreateTracker ==
    /\ switch = NoSwitch /\ sensor = NoSensor /\ tracker = NoTracker
    /\ tracker' = [NoTracker EXCEPT !.created = TRUE]
    /\ UNCHANGED <<coreVars, switch, sensor, options>>

\* TeslaDeviceTracker.update_location
UpdateLocation(value, data) ==
    /\ tracker.created
    /\ LET c == SetCoordinates(tracker, data)
           a == SetAttributes(c.tr, data)
           t == IF ~c.ok THEN c.tr ELSE a.tr
       IN tracker' = [t EXCEPT !.wrote = c.ok /\ a.ok, !.data = data]
    /\ UNCHANGED <<coreVars, switch, sensor, options>>

\* the names device_tracker registers update_location under
TrackerFields == <<"Location", "Latitude", "Longitude">>

\* _notify_callbacks calls update_location for a message that holds one of
\* the registered names
DispatchLocation(data) ==
    /\ \E i \in 1..Len(TrackerFields) : TrackerFields[i] \in DOMAIN data
    /\ LET i == CHOOSE i \in 1..Len(TrackerFields) :
                    TrackerFields[i] \in DOMAIN data
       IN UpdateLocation(data[TrackerFields[i]], data)

\* a record that carries the Location field only
LocationRecord ==
    Payload(VehicleVin, TRUE, <<Datum(21, "location_value", <<41, 2>>)>>)

\* messages for the tracker: decoded records with a Location field, and
\* dicts with the keys update_location reads
TrackerMessages ==
    { ParseProtobuf(CreateDrivingMessage(VehicleVin)).d,
      ParseProtobuf(LocationRecord).d,
      ParseProtobuf(SocRecord).d,
      [Latitude |-> VFloat(41), Longitude |-> VFloat(2)],
      [Latitude |-> VFloat(40), Longitude |-> VStr("n/a")],
      [Latitude |-> VFloat(41), Longitude |-> VFloat(2),
       Heading |-> VInt(45), Speed |-> VInt(65)],
      [Latitude |-> VFloat(41), Longitude |-> VFloat(3),
       GpsAccuracy |-> VStr("65")],
      [Latitude |-> VFloat(41), Longitude |-> VFloat(3),
       GpsAccuracy |-> VNone] }

\* ------------------------------------------------------------------------
\* The options flow (config_flow.py, TeslaTelemetryOptionsFlow)

\* a TeslaAPIClient the step created: whether close() was called on it and
\* whether a session it opened is still open
Client(name, closed) ==
    [name |-> name, closed |-> closed, session_open |-> ~closed]

\* the step begins: "self._errors = {}"
Begin(o) ==
    [o EXCEPT !.errors = "", !.clients = <<>>, !.apply = "none",
              !.before = o.entry_options]

\* async_show_form(step_id=..., errors=self._errors)
ShowForm(o, step_id) == [o EXCEPT !.step = step_id]

\* _async_save_config: the options of the entry become the old options
\* with the keys of _data, and the flow ends
AsyncSaveConfig(o) ==
    LET keys == DOMAIN o.data \cap {"proxy_url", "tesla_token",
                                    "telemetry_preset", "telemetry_config"}
        new_options == [k \in DOMAIN o.entry_options \cup keys |->
                           IF k \in keys THEN o.data[k]
                           ELSE o.entry_options[k]]
    IN [o EXCEPT !.step = "create_entry", !.entry_options = new_options]

\* async_step_preset_select(None): the errors are reset and the form shown
PresetSelectForm(o) == ShowForm([o EXCEPT !.errors = ""], "preset_select")

\* what _async_apply_and_save does on a failure:
\* 'self._errors["base"] = "apply_failed"; return await
\* self.async_step_preset_select()'
ApplyFailed(o) == PresetSelectForm([o EXCEPT !.errors = "apply_failed"])

\* _async_apply_and_save; temp and apply are the outcomes of the API calls
\* of temp_client and of client (get_ca_certificate_from_current_config
\* closes its client whatever its call does)
AsyncApplyAndSave(o, preset, custom_fields, temp, apply) ==
    LET o1 == [o EXCEPT
                 !.apply = apply,
                 !.clients = @ \o <<Client("ca_client", TRUE),
                                    Client("temp_client", temp = "ok"),
                                    Client("client", TRUE)>>]
    IN IF apply = "ok"
       THEN LET d1 == DictSet(o1.data, "telemetry_preset", preset)
                d2 == IF custom_fields # ""
                      THEN DictSet(d1, "telemetry_config", custom_fields)
                      ELSE d1
            IN AsyncSaveConfig([o1 EXCEPT !.data = d2])
       ELSE ApplyFailed(o1)

\* the form part of async_step_custom_fields: with no field configuration
\* in the options and a token in _data it asks Tesla for the current one
CustomFieldsForm(o) ==
    ShowForm(IF /\ "telemetry_config" \notin DOMAIN o.entry_options
                /\ "tesla_token" \in DOMAIN o.data
             THEN [o EXCEPT !.clients = Append(@, Client("client", TRUE))]
             ELSE o,
             "custom_fields")

\* the form part of async_step_tesla_api
TeslaApiForm(o) == ShowForm(o, "tesla_api")

\* async_step_tesla_api(None): with a saved proxy and token the connection
\* is tested, and the flow goes on to the presets if the test succeeds
TeslaApiSaved(o, test) ==
    IF {"proxy_url", "tesla_token"} \subseteq DOMAIN o.entry_options
    THEN IF test = "ok"
         THEN PresetSelectForm(
                 [o EXCEPT
                    !.clients = Append(@, Client("client", TRUE)),
                    !.data = DictSet(DictSet(@, "proxy_url",
                                             o.entry_options["proxy_url"]),
                                     "tesla_token",
                                     o.entry_options["tesla_token"])])
         ELSE TeslaApiForm(
                 [o EXCEPT !.clients = Append(@, Client("client", FALSE))])
    ELSE TeslaApiForm(o)

\* async_step_tesla_api(user_input), user_input given
TeslaApiInput(o, proxy_url, token, test) ==
    IF proxy_url = "" THEN
       TeslaApiForm([o EXCEPT !.errors = "proxy_url_required"])
    ELSE IF token = "" THEN
       TeslaApiForm([o EXCEPT !.errors = "token_required"])
    ELSE LET o1 == [o EXCEPT
                      !.clients = Append(@, Client("_tesla_client", TRUE))]
         IN IF test = "ok"
            THEN PresetSelectForm(
                    [o1 EXCEPT
                       !.data = DictSet(DictSet(@, "proxy_url", proxy_url),
                                        "tesla_token", token),
                       !.entry_options =
                          DictSet(DictSet(@, "proxy_url", proxy_url),
                                  "tesla_token", token)])
            ELSE TeslaApiForm([o1 EXCEPT !.errors = "connection_failed"])

\* Home Assistant opens the options flow: __init__ and async_step_init(None)
OpenOptions ==
    /\ options.step \in {"none", "create_entry"}
    /\ options' = [NoOptions EXCEPT !.step = "init",
                                    !.entry_options = options.entry_options,
                                    !.before = options.entry_options]
    /\ UNCHANGED <<coreVars, switch, sensor, tracker>>

\* async_step_init(user_input)
AsyncStepInit(configure_telemetry, test) ==
    /\ options.step = "init"
    /\ options' = IF configure_telemetry
                  THEN TeslaApiSaved(Begin(options), test)
                  ELSE AsyncSaveConfig(Begin(options))
    /\ UNCHANGED <<coreVars, switch, sensor, tracker>>

\* async_step_tesla_api(user_input)
AsyncStepTeslaApi(proxy_url, token, test) ==
    /\ options.step = "tesla_api"
    /\ options' = TeslaApiInput(Begin(options), proxy_url, token, test)
    /\ UNCHANGED <<coreVars, switch, sensor, tracker>>

\* async_step_preset_select(user_input)
AsyncStepPresetSelect(preset, temp, apply) ==
    /\ options.step = "preset_select"
    /\ LET o1 == [Begin(options) EXCEPT
                     !.data = DictSet(@, "telemetry_preset", preset)]
       IN options' = IF preset = "custom" THEN CustomFieldsForm(o1)
                     ELSE AsyncApplyAndSave(o1, preset, "", temp, apply)
    /\ UNCHANGED <<coreVars, switch, sensor, tracker>>

\* async_step_custom_fields(user_input): custom_fields is what the input
\* selects, "" if every interval is 0
AsyncStepCustomFields(custom_fields, temp, apply) ==
    /\ options.step = "custom_fields"
    /\ LET o1 == Begin(options) IN
       options' =
          IF custom_fields = ""
          THEN CustomFieldsForm([o1 EXCEPT !.errors = "no_fields_selected"])
          ELSE AsyncApplyAndSave(
                  [o1 EXCEPT
                     !.data = DictSet(@, "telemetry_config", custom_fields)],
                  "custom", custom_fields, temp, apply)
    /\ UNCHANGED <<coreVars, switch, sensor, tracker>>

\* TELEMETRY_PRESETS: two of the presets, and custom
Presets == {"minimal", "complete", "custom"}

\* outcomes of a call of the Tesla API: it returns, or it raises
ApiOutcomes == {"ok", "raises"}

\* outcomes of set_telemetry_config / apply_preset: a result, an empty
\* result, an exception
ApplyOutcomes == {"ok", "empty", "raises"}

InitOptions ==
    /\ transport = "mqtt"
    /\ InitState

NextOptions ==
    \/ OpenOptions
    \/ \E configure_telemetry \in BOOLEAN : \E test \in ApiOutcomes :
          AsyncStepInit(configure_telemetry, test)
    \/ \E proxy_url \in {"", "https://ha.local:4443"} :
       \E token \in {"", "token"} : \E test \in ApiOutcomes :
          AsyncStepTeslaApi(proxy_url, token, test)
    \/ \E preset \in Presets : \E temp \in ApiOutcomes :
       \E apply \in ApplyOutcomes :
          AsyncStepPresetSelect(preset, temp, apply)
    \/ \E custom_fields \in {"", "Soc:60"} : \E temp \in ApiOutcomes :
       \E apply \in ApplyOutcomes :
          AsyncStepCustomFields(custom_fields, temp, apply)

SpecOptions == InitOptions /\ [][NextOptions]_vars

\* ------------------------------------------------------------------------
\* The device specification: one switch, sensor or tracker is created and
\* driven with commands and messages
InitDevices ==
    /\ transport = "mqtt"
    /\ InitState

NextDevices ==
    \/ \E switch_key \in SwitchKeys : CreateSwitch(switch_key)
    \/ AsyncTurnOn
    \/ AsyncTurnOff
    \/ \E get \in GetResponses : \E post \in PostResponses :
          SendCommandReturns(get, post)
    \/ \E value \in TelemetryValues : UpdateFromTelemetry(value)
    \/ \E field_name \in SensorFields : CreateSensor(field_name)
    \/ \E value \in SensorValues : \E timestamp \in Timestamps :
          UpdateSensor(value, timestamp)
    \/ CreateTracker
    \/ \E data \in TrackerMessages : DispatchLocation(data)

SpecDevices == InitDevices /\ [][NextDevices]_vars

\* ------------------------------------------------------------------------
\* The entity specification: the config flow creates the entry, then one
\* entity is driven with field updates while time passes
ValidVin ==
    <<"5", "Y", "J", "3", "E", "1", "E", "A", "1", "M", "F", "0", "0", "0",
      "0", "0", "0">>

LowerCaseVin ==
    <<"5", "y", "j", "3", "e", "1", "e", "a", "1", "m", "f", "0", "0", "0",
      "0", "0", "0">>

\* the VINs of the validation tests, and one with a leading blank
VinInputs ==
    { ValidVin, <<>>, SubSeq(ValidVin, 1, 15), ValidVin \o <<"0", "0">>,
      [ValidVin EXCEPT ![17] = "I"], [ValidVin EXCEPT ![17] = "O"],
      [ValidVin EXCEPT ![17] = "Q"], LowerCaseVin, <<" ">> \o ValidVin }

ChargeStates == {"Charging", "Starting", "Complete", "Disconnected", "Stopped"}

\* the (field, value) updates an entity receives
UpdateInputs(sensor_key) ==
    CASE sensor_key = "driving" ->
            {<<"Gear", VStr("D")>>, <<"Gear", VStr("P")>>,
             <<"Gear", VStr("r")>>, <<"Gear", VNone>>,
             <<"VehicleSpeed", VInt(0)>>, <<"VehicleSpeed", VInt(1)>>,
             <<"VehicleSpeed", VInt(5)>>, <<"VehicleSpeed", VNone>>,
             <<"VehicleSpeed", VStr("n/a")>>}
      [] sensor_key = "charging" ->
            {<<"ChargeState", VStr(c)>> : c \in ChargeStates}
            \cup {<<"ChargingState", VStr("Charging")>>,
                  <<"ChargingState", VStr("Stopped")>>}
      [] OTHER -> {<<"Soc", VInt(80)>>}

\* the context the MQTT client passes with a field
UpdateData(field_name, value) ==
    DictSet(DictSet(EmptyDict, "timestamp", VNone), field_name, value)

\* the client calls the callback of the entity for a field it depends on
\* (for any field, the awake sensor)
NotifyEntity(field_name, value) ==
    /\ <<field_name, value>> \in UpdateInputs(entity.sensor_key)
    /\ UpdateValue(value, UpdateData(field_name, value))

UpdateFields == {"Gear", "VehicleSpeed", "ChargeState", "ChargingState", "Soc"}

UpdateValues ==
    {VStr("D"), VStr("P"), VStr("r"), VInt(0), VInt(1), VInt(5), VNone, VStr("n/a"),
     VInt(80)} \cup {VStr(c) : c \in ChargeStates}

InitEntities ==
    /\ transport = "mqtt"
    /\ InitState

NextEntities ==
    \/ \E mqtt_configured \in BOOLEAN : AsyncStepUser(mqtt_configured)
    \/ \E user_vin \in VinInputs : AsyncStepVehicle(user_vin)
    \/ \E sensor_key \in {"awake", "driving", "charging"} :
          CreateEntity(sensor_key)
    \/ \E field_name \in UpdateFields : \E value \in UpdateValues :
          NotifyEntity(field_name, value)
    \/ CheckAwakeTimeout
    \/ Tick

SpecEntities == InitEntities /\ [][NextEntities]_vars

TypeOK ==
    /\ setup \in {"platforms", "loaded"}
    /\ running \in BOOLEAN
    /\ reconnect_attempts \in 0..(MAX_RECONNECT_ATTEMPTS + MaxStarts)
    /\ consumer \in 0..MaxHandles
    /\ \A t \in Tasks : task[t].pc \in {"none", "created", "connecting",
            "polling", "dispatch", "closing", "backoff", "done"}

\* ------------------------------------------------------------------------
\* Properties of the Kafka consumer life cycle (specification Spec)

Active(t) == task[t].pc \notin {"none", "done"}

\* C2: when the counter stands at 10 failures, the next failure sets the
\* running flag to false and ends the failing task at once, without closing
\* a consumer and without entering the backoff wait; a task that has ended
\* never leaves its terminal state, so it never connects again.
C2_GiveUpAfterCeiling ==
    [][ /\ ( /\ reconnect_attempts = MAX_RECONNECT_ATTEMPTS
             /\ reconnect_attempts' = reconnect_attempts + 1 )
           => /\ ~running'
              /\ openHandles' = openHandles
              /\ \E t \in Tasks :
                    /\ task[t].pc \in {"connecting", "polling"}
                    /\ task'[t].pc = "done"
                    /\ \A u \in Tasks \ {t} : task'[u] = task[u]
        /\ \A t \in Tasks : task[t].pc = "done" => task'[t].pc = "done"
      ]_vars

C2_Witness ==
    /\ reconnect_attempts = MAX_RECONNECT_ATTEMPTS + 1
    /\ ~running
    /\ \E t \in Tasks : task[t].pc = "done"

\* C3: once stop() was called and every task has finished, every
\* KafkaConsumer object that was created has been closed.
C3_AllHandlesClosedAfterStop ==
    ( /\ stopRequested
      /\ \E t \in Tasks : task[t].pc = "done"
      /\ \A t \in Tasks : ~Active(t) )
    => openHandles = {}

\* C4: at most one connect-and-consume loop is active, and at most one
\* connection attempt is in flight.
C4_SingleLoop ==
    /\ Cardinality({t \in Tasks : Active(t)}) <= 1
    /\ Cardinality({t \in Tasks : task[t].pc = "connecting"}) <= 1

\* C9: the running flag goes from true to false only in a stop() call or in
\* the failure that takes the counter past the ceiling, and a task reaches
\* its terminal state only with the running flag false; so a bad record, a
\* raising callback or a failure counted up to 10 leaves the loop alive.
C9_EndsOnlyByStopOrCeiling ==
    [][ /\ (running /\ ~running')
           => \/ stopRequested'
              \/ reconnect_attempts' > MAX_RECONNECT_ATTEMPTS
        /\ \A t \in Tasks :
              (task[t].pc # "done" /\ task'[t].pc = "done") => ~running'
      ]_vars

C9_Witness ==
    /\ running
    /\ reconnect_attempts = MAX_RECONNECT_ATTEMPTS
    /\ \E t \in Tasks : task[t].pc = "backoff"

\* C10: the counter decreases only in a step that creates a KafkaConsumer
\* (a successful connection), which leaves it at 0; every successful
\* connection leaves it at 0.
C10_ResetOnlyOnConnect ==
    [][ /\ reconnect_attempts' < reconnect_attempts
           => /\ reconnect_attempts' = 0
              /\ nextHandle' = nextHandle + 1
              /\ consumer' = nextHandle
              /\ consumer' \in openHandles'
        /\ nextHandle' # nextHandle => reconnect_attempts' = 0
      ]_vars

C10_Witness ==
    /\ reconnect_attempts = 0
    /\ consumer \in openHandles
    /\ \E t \in Tasks : task[t].pc = "backoff"

\* C11: a failure that leads to a backoff wait takes the counter from k-1
\* to some k in 1..10 and the wait that follows lasts RECONNECT_DELAY * k
\* seconds (30, 60, 90, ...: linear in k); closing the old consumer before
\* the wait does not change the delay.
C11_LinearBackoff ==
    [][ \A t \in Tasks :
          /\ ( /\ task[t].pc \in {"connecting", "polling"}
               /\ task'[t].pc \in {"closing", "backoff"} )
             => \E k \in 1..MAX_RECONNECT_ATTEMPTS :
                   /\ reconnect_attempts = k - 1
                   /\ reconnect_attempts' = k
                   /\ task'[t].delay = 30 * k
          /\ (task[t].pc = "closing" /\ task'[t].pc = "backoff")
             => task'[t].delay = task[t].delay
      ]_vars

C11_Witness ==
    /\ reconnect_attempts = 3
    /\ \E t \in Tasks : task[t].pc = "backoff" /\ task[t].delay = 90

\* C12: a task that waits in backoff with the counter at most 10 while no
\* stop is requested eventually starts a new connection attempt, unless
\* the consumer is stopped in the meantime (by stop() or by the ceiling).
C12_BackoffLeadsToConnect ==
    \A t \in Tasks :
       ( /\ task[t].pc = "backoff"
         /\ reconnect_attempts <= MAX_RECONNECT_ATTEMPTS
         /\ running /\ ~stopRequested )
       ~> (task[t].pc = "connecting" \/ stopRequested \/ ~running)

\* C13: once stop() was requested no callback is called any more: a task
\* that is dispatching a record makes no further call, and the records of a
\* poll that returns after the stop are not dispatched.
C13_NoCallbackAfterStop ==
    [][ stopRequested =>
          \A t \in Tasks :
             /\ task[t].pc = "dispatch" => task'[t] = task[t]
             /\ task[t].pc = "polling" => task'[t].pc # "dispatch"
      ]_vars

\* C14: a stop() interrupts the backoff wait: a task that is suspended in
\* the sleep of _handle_reconnect when stop() is called is no longer
\* suspended in it when stop() returns.
C14_StopInterruptsBackoff ==
    [][ (running /\ stopRequested') =>
          \A t \in Tasks : task[t].pc = "backoff" => task'[t].pc # "backoff"
      ]_vars

\* ------------------------------------------------------------------------
\* Properties of the MQTT client life cycle (specification SpecMqtt)

SubsOf(kind) == {sub \in subs : sub.kind = kind}

\* C15: whatever the number of start() calls, each of the three topic
\* patterns has at most one active subscription, and exactly one while the
\* client reports itself connected.
C15_StartIdempotent ==
    \A i \in 1..Len(SubKinds) :
       /\ Cardinality(SubsOf(SubKinds[i])) <= 1
       /\ connected => Cardinality(SubsOf(SubKinds[i])) = 1

\* C16: the client reports itself connected exactly when one of its
\* subscriptions is active.
C16_ConnectedIffSubscribed == connected <=> subs # {}

\* ------------------------------------------------------------------------
\* Properties of parsing and dispatch (specification SpecDispatch)

MetadataKeys == {"vin", "timestamp"}

\* the telemetry fields of a parsed Kafka message
TelemetryFields(d) == DOMAIN d \ MetadataKeys

\* the callbacks registered under a name, in the order of the calls
RegisteredFor(F) ==
    LET IsF(r) == r.key = F
        regs == SelectSeq(regLog, IsF)
    IN [i \in 1..Len(regs) |-> regs[i].cb]

\* the calls made for a name: callback, value and context of each
CallsFor(calls, F) ==
    LET IsF(c) == c.key = F
        cs == SelectSeq(calls, IsF)
    IN [i \in 1..Len(cs) |->
          [cb |-> cs[i].cb, value |-> cs[i].value, data |-> cs[i].data]]

ExpectedCalls(F, value, data) ==
    LET cbs == RegisteredFor(F) IN
    [i \in 1..Len(cbs) |-> [cb |-> cbs[i], value |-> value, data |-> data]]

\* the context the MQTT client passes for a single-field message
MqttContext(F, value) ==
    [k \in {"timestamp", F} |-> IF k = F THEN value ELSE VNone]

KafkaDone == lastMsg.data.parsed
MqttDone == mqttLast.handler = "metrics" /\ mqttLast.notified

\* C1: a record whose VIN differs from the configured VIN is dropped before
\* dispatch: no callback is called, or about to be called, for it.
C1_ForeignVinDropped ==
    /\ ( /\ KafkaDone
         /\ "vin" \in DOMAIN lastMsg.data.d
         /\ lastMsg.data.d["vin"] # VStr(VehicleVin) )
       => lastMsg.calls = <<>>
    /\ \A t \in Tasks :
          task[t].pc = "dispatch" =>
             LET d == ParseProtobuf(Head(task[t].batch)).d IN
             "vin" \in DOMAIN d => d["vin"] = VStr(VehicleVin)

\* C5: for every field of a dispatched message, the calls made for the
\* field are exactly the callbacks registered for it, once each, in the
\* order of registration, each with the value of the field and the context
\* of the message.
C5_FanOutInOrder ==
    /\ KafkaDone =>
          \A F \in TelemetryFields(lastMsg.data.d) :
             CallsFor(lastMsg.calls, F)
                = ExpectedCalls(F, lastMsg.data.d[F], lastMsg.data.d)
    /\ MqttDone =>
          CallsFor(mqttLast.calls, mqttLast.field)
             = ExpectedCalls(mqttLast.field, mqttLast.value,
                             MqttContext(mqttLast.field, mqttLast.value))

C5_Witness ==
    /\ KafkaDone
    /\ Len(lastMsg.calls) = 2
    /\ lastMsg.calls[1].key = "Soc" /\ lastMsg.calls[1].cb = 1
    /\ lastMsg.calls[2].key = "Soc" /\ lastMsg.calls[2].cb = 2
    /\ lastMsg.calls[1].value = VInt(80)

\* the number of registrations under the names in S
RegistrationsIn(S) ==
    LET InS(r) == r.key \in S IN Len(SelectSeq(regLog, InS))

Raised(calls) == \E i \in 1..Len(calls) : calls[i].raised

\* C6: when a callback raises, the remaining callbacks of the same field
\* and of the other fields of the message are still called: the message
\* ends with one call per registration for its fields.
C6_CallbackErrorsIsolated ==
    /\ (KafkaDone /\ Raised(lastMsg.calls)) =>
          Len(lastMsg.calls) = RegistrationsIn(DOMAIN lastMsg.data.d)
    /\ (MqttDone /\ Raised(mqttLast.calls)) =>
          Len(mqttLast.calls) = RegistrationsIn({mqttLast.field})

C6_Witness ==
    /\ KafkaDone
    /\ Len(lastMsg.calls) = 2
    /\ lastMsg.calls[1].raised /\ lastMsg.calls[1].key = "Soc"
    /\ ~lastMsg.calls[2].raised /\ lastMsg.calls[2].key = "Gear"

\* C7: a callback registered under "any" is called for every dispatched
\* message that carries at least one field.
C7_AnyCalledOnEveryMessage ==
    /\ (KafkaDone /\ TelemetryFields(lastMsg.data.d) # {}) =>
          Len(CallsFor(lastMsg.calls, "any")) = Len(RegisteredFor("any"))
    /\ MqttDone =>
          \A i \in 1..Len(RegisteredFor("any")) :
             \E j \in 1..Len(mqttLast.calls) :
                mqttLast.calls[j].cb = RegisteredFor("any")[i]

\* C8: a callback registered for F is called for a message exactly when F
\* is a telemetry field of the message; VIN and timestamp are no fields.
C8_CalledIffFieldCarried ==
    /\ KafkaDone =>
          \A i \in 1..Len(regLog) :
             (\E j \in 1..Len(lastMsg.calls) :
                 /\ lastMsg.calls[j].key = regLog[i].key
                 /\ lastMsg.calls[j].cb = regLog[i].cb)
             <=> regLog[i].key \in TelemetryFields(lastMsg.data.d)
    /\ MqttDone =>
          \A i \in 1..Len(regLog) :
             (\E j \in 1..Len(mqttLast.calls) :
                 /\ mqttLast.calls[j].key = regLog[i].key
                 /\ mqttLast.calls[j].cb = regLog[i].cb)
             <=> regLog[i].key = mqttLast.field

\* the metrics messages whose payload is a JSON object with a "value" member
ValuePayload(msg) ==
    /\ msg.payload.kind = "json"
    /\ msg.payload.val.t = "dict"
    /\ "value" \in DOMAIN msg.payload.val.m

\* C17: for a metrics message on <base>/<VIN>/v/.../F with payload
\* {"value": x}, the calls made are exactly one call per callback
\* registered for F, F being the last level of the topic, in registration
\* order, each with (x, {timestamp: None, F: x}).
C17_MetricsValueDelivered ==
    ( /\ mqttLast.handler = "metrics"
      /\ Len(mqttLast.msg.topic) >= 4
      /\ ValuePayload(mqttLast.msg) )
    => LET F == mqttLast.msg.topic[Len(mqttLast.msg.topic)]
           x == mqttLast.msg.payload.val.m["value"]
       IN /\ CallsFor(mqttLast.calls, F)
                = ExpectedCalls(F, x, MqttContext(F, x))
          /\ Len(mqttLast.calls) = Len(RegisteredFor(F))

C17_Witness ==
    /\ mqttLast.handler = "metrics"
    /\ mqttLast.msg.topic = <<TopicBase, VehicleVin, "v", "sub", "Gear">>
    /\ Len(mqttLast.calls) = 2
    /\ mqttLast.calls[1].value = VStr("P")
    /\ mqttLast.calls[2].data = MqttContext("Gear", VStr("P"))

NoneValues(calls) == {i \in 1..Len(calls) : calls[i].value = VNone}

\* C18: no field with a None value is delivered: the parsed Kafka message
\* has no entry whose value is None, and no callback of either transport is
\* called with the value None.
C18_NoNoneDelivered ==
    /\ KafkaDone => \A k \in DOMAIN lastMsg.data.d : lastMsg.data.d[k] # VNone
    /\ NoneValues(lastMsg.calls) = {}
    /\ NoneValues(mqttLast.calls) = {}

\* ------------------------------------------------------------------------
\* Properties of record processing (specifications Spec and SpecDecode)

Unparsable(rec) == ~ParseProtobuf(rec).parsed

\* C19: a record that cannot be parsed is never dispatched; the step that
\* finishes it makes no call, leaves the counter, the consumer, its handle
\* and the running flag as they were and sends no task into the reconnect
\* path; and when records follow it in the batch and it is the last one
\* finished, the task is dispatching one of them.
C19_UnparsableRecordSkipped ==
    [][ /\ \A t \in Tasks :
              task'[t].pc = "dispatch" => ~Unparsable(Head(task'[t].batch))
        /\ ( /\ lastMsg' # lastMsg
             /\ lastMsg'.record # <<>>
             /\ Unparsable(lastMsg'.record[1]) )
           => /\ lastMsg'.calls = <<>>
              /\ reconnect_attempts' = reconnect_attempts
              /\ consumer' = consumer
              /\ openHandles' = openHandles
              /\ running' = running
              /\ \A t \in Tasks :
                    task'[t].pc \in {"closing", "backoff"}
                       => task'[t] = task[t]
              /\ lastMsg'.more =>
                    \E t \in Tasks : /\ task'[t] # task[t]
                                     /\ task'[t].pc = "dispatch"
      ]_vars

C19_Witness ==
    /\ lastMsg.record = <<Garbage>>
    /\ lastMsg.more
    /\ lastMsg.calls = <<>>
    /\ \E t \in Tasks :
          task[t].pc = "dispatch" /\ Head(task[t].batch) = SocRecord

\* the data of a record that decode on their own: a known Field number and
\* a value that is set and valid
Decodable(datum) ==
    FieldKnown(datum.key) /\ datum.value.which \notin {"unset", "invalid"}

\* C20: a datum that cannot be decoded drops only its own field: every
\* decodable datum of a well-formed record is a field of the parsed message
\* and the callbacks registered for it are called.
C20_DecodeFailureIsolated ==
    (lastMsg.record # <<>> /\ lastMsg.record[1].ok) =>
       \A i \in 1..Len(lastMsg.record[1].data) :
          LET datum == lastMsg.record[1].data[i]
              F == FieldName(datum.key)
          IN Decodable(datum) =>
                /\ lastMsg.data.parsed
                /\ F \in DOMAIN lastMsg.data.d
                /\ Len(CallsFor(lastMsg.calls, F)) = Len(RegisteredFor(F))

\* the oneof members _extract_value has a branch for
RecognisedKinds ==
    {"string_value", "int_value", "long_value", "float_value", "double_value",
     "boolean_value", "location_value", "charging_value", "shift_state_value",
     "time_value", "door_value", "tire_location_value"}

\* the last record, when it was well formed
LastData == IF lastMsg.record # <<>> /\ lastMsg.record[1].ok
            THEN lastMsg.record[1].data ELSE <<>>

\* C21: a Value whose active variant is not one of the recognised kinds
\* decodes to None: the message still parses and the field of that datum is
\* not a key of the parsed message.
C21_UnknownVariantDropped ==
    \A i \in 1..Len(LastData) :
       ( /\ FieldKnown(LastData[i].key)
         /\ LastData[i].value.which
               \notin RecognisedKinds \cup {"unset", "invalid"} )
       => /\ lastMsg.data.parsed
          /\ FieldName(LastData[i].key) \notin DOMAIN lastMsg.data.d

\* the field of datum i of the last record is decoded to value
DecodesTo(i, value) ==
    /\ lastMsg.data.parsed
    /\ FieldName(LastData[i].key) \in DOMAIN lastMsg.data.d
    /\ lastMsg.data.d[FieldName(LastData[i].key)] = value

\* C22: the enum values decode to the strings the entities compare
\* against: ChargeStateCharging decodes to "Charging" and ShiftStateD
\* decodes to "D".
C22_EnumsDecodeToSymbols ==
    \A i \in 1..Len(LastData) :
       /\ LastData[i].value = [which |-> "charging_value", v |-> 4]
             => DecodesTo(i, VStr("Charging"))
       /\ LastData[i].value = [which |-> "shift_state_value", v |-> 5]
             => DecodesTo(i, VStr("D"))

\* a value that carries one of the two coordinates without the other
PartialLocation(value) ==
    /\ value.t = "dict"
    /\ ("latitude" \in DOMAIN value.m) # ("longitude" \in DOMAIN value.m)

\* C23: a location is delivered only with both coordinates: a payload that
\* carries one coordinate alone leads to no callback call and to no field
\* of a parsed message.
C23_PartialLocationDropped ==
    /\ mqttLast.notified => ~PartialLocation(mqttLast.value)
    /\ \A i \in 1..Len(mqttLast.calls) :
          ~PartialLocation(mqttLast.calls[i].value)
    /\ KafkaDone =>
          \A k \in DOMAIN lastMsg.data.d : ~PartialLocation(lastMsg.data.d[k])

\* the (field name, value) pairs the driving scenario encodes
DrivingFields ==
    { <<"Location", VLoc(41, 2)>>, <<"VehicleSpeed", VInt(65)>>,
      <<"Gear", VStr("D")>>, <<"Soc", VInt(80)>>,
      <<"ChargeState", VStr("Disconnected")>> }

\* C24: round trip of the driving scenario: the fields of the parsed
\* message (its keys other than vin and timestamp) are exactly the encoded
\* field names, each mapped to the value that was encoded.
C24_RoundTrip ==
    lastMsg.record = <<CreateDrivingMessage(VehicleVin)>> =>
       /\ lastMsg.data.parsed
       /\ TelemetryFields(lastMsg.data.d) = {p[1] : p \in DrivingFields}
       /\ \A p \in DrivingFields : lastMsg.data.d[p[1]] = p[2]

\* the records of batch b after its n first ones
Rest(b, n) == SubSeq(b, n + 1, Len(b))

\* C25: a task that dispatches stays on the record it is dispatching or
\* moves to a later record of the same batch, never back; and at most one
\* task of the consumer is inside the processing of a record at any time.
C25_OneRecordAtATime ==
    [][ /\ \A t \in Tasks :
              (task[t].pc = "dispatch" /\ task'[t].pc = "dispatch") =>
                 \E n \in 0..Len(task[t].batch) :
                    task'[t].batch = Rest(task[t].batch, n)
        /\ Cardinality({t \in Tasks : task'[t].pc = "dispatch"}) <= 1
      ]_vars

\* ------------------------------------------------------------------------
\* Properties of the setup order (specification SpecDispatch)

\* the transport has been started: a consume task exists or start() of the
\* MQTT client has run
Started == (\E t \in Tasks : task[t].pc # "none") \/ nextSub # 1

RecentMessage ==
    /\ entity.last_message_time # VNone
    /\ now - entity.last_message_time.v <= 5

C28_DrivingBySpeed ==
    ( /\ entity.sensor_key = "driving"
      /\ lastCall = "update_value"
      /\ "Gear" \notin DOMAIN entity.data_cache )
    => ( entity.state <=>
            /\ "VehicleSpeed" \in DOMAIN entity.data_cache
            /\ entity.data_cache["VehicleSpeed"].t \in {"int", "float"}
            /\ entity.data_cache["VehicleSpeed"].v > 0 )

\* C29: after an update the charging sensor is on exactly when the charge
\* state it holds is Charging or Starting.
C29_ChargingOrStarting ==
    ( /\ entity.sensor_key = "charging"
      /\ lastCall = "update_value"
      /\ DOMAIN entity.data_cache = {"ChargeState"} )
    => ( entity.state <=>
            entity.data_cache["ChargeState"]
               \in {VStr("Charging"), VStr("Starting")} )

\* C30: the config flow creates an entry only for a VIN that, as typed,
\* has exactly 17 characters, all of them in A-H, J-N, P, R-Z, 0-9.
C30_VinAcceptedOnlyIfWellFormed ==
    flow.step = "created" =>
       /\ Len(flow.input) = 17
       /\ \A i \in 1..Len(flow.input) : flow.input[i] \in VinChars

\* the latest value delivered for a field, None if none was
Latest(field_name) == DictGet(entity.received, field_name, VNone)

\* the gear is D, R or N, in either case
GearEngaged(gear) ==
    gear.t = "str" /\ gear.v \in {"D", "R", "N", "d", "r", "n"}

C36_ChargingFollowsLatestState ==
    ( /\ entity.sensor_key = "charging"
      /\ entity.last_field \in {"ChargingState", "ChargeState"} )
    => ( entity.state <=>
            Latest(entity.last_field) \in {VStr("Charging"), VStr("charging")} )

\* C37: whatever start(), stop(), connection failures and poll failures
\* have happened, the reconnect-attempt counter of the Kafka consumer lies
\* between 0 and MAX_RECONNECT_ATTEMPTS + 1.
C37_CounterInRange ==
    reconnect_attempts \in 0..(MAX_RECONNECT_ATTEMPTS + 1)

\* C32: no unsubscribe handle is ever called twice, and once stop() has
\* run, every handle start() collected has been called exactly once, also
\* when one of them raised, the handle list is empty and connected is false;
\* this still holds after a second stop().
C32_StopCallsEachHandleOnce ==
    /\ \A id \in unsubLog.collected : unsubLog.calls[id] <= 1
    /\ unsubLog.stops > 0 =>
          /\ \A id \in unsubLog.collected : unsubLog.calls[id] = 1
          /\ unsubscribes = <<>>
          /\ ~connected

C32_Witness ==
    /\ unsubLog.stops = 2
    /\ unsubLog.raised
    /\ Cardinality(unsubLog.collected) >= 3
    /\ \A id \in unsubLog.collected : unsubLog.calls[id] = 1

\* ------------------------------------------------------------------------
\* Properties of the switch, the sensor and the tracker (specification
\* SpecDevices)

\* C33: when a command of async_turn_on or async_turn_off returns, the
\* on/off state of the switch has changed only if the request succeeded
\* (vehicle id resolved, status 200, result true), in which case it is the
\* state commanded and a state write was issued; with an unresolved vehicle
\* id, a status other than 200, a false result or an exception the state is
\* the one before the return and no state write is issued.
C33_SwitchChangesOnlyOnSuccess ==
    [][ (switch.pc = "send_command" /\ switch'.pc = "idle") =>
           IF /\ switch'.post = "200_true"
              /\ switch'.get \in {"cached", "200_listed"}
           THEN /\ switch'.is_on = (switch.cmd = "turn_on")
                /\ switch'.wrote
           ELSE /\ switch'.is_on = switch.is_on
                /\ ~switch'.wrote ]_vars

C33_Witness ==
    /\ switch.pc = "idle"
    /\ switch.cmd = "turn_off"
    /\ switch.post = "500"
    /\ switch.is_on
    /\ ~switch.wrote

\* the sensor holds a number and the value is one float() rejects
Unconvertible(sn, value) ==
    /\ sn.field_name \in {"Soc", "VehicleSpeed"}
    /\ value.t = "dict" \/ value \in {VStr("n/a"), VStr("d")}

\* C34: an update_value whose value cannot be converted to a number leaves
\* the state and last_updated of the sensor as they were, issues no state
\* write and raises nothing to its caller; an update with a number, also
\* after such a failure, sets the state to that number and issues a write.
C34_BadValueLeavesSensor ==
    [][ (sensor # NoSensor /\ sensor' # sensor) =>
           /\ Unconvertible(sensor, sensor'.value) =>
                 /\ sensor'.state = sensor.state
                 /\ sensor'.last_updated = sensor.last_updated
                 /\ ~sensor'.wrote
                 /\ ~sensor'.propagated
           /\ ( /\ sensor.field_name \in {"Soc", "VehicleSpeed"}
                /\ sensor'.value.t \in {"int", "float"} ) =>
                 /\ sensor'.state = VFloat(sensor'.value.v)
                 /\ sensor'.wrote ]_vars

C34_Witness ==
    /\ sensor.field_name = "Soc"
    /\ sensor.value = VLoc(41, 2)
    /\ sensor.state = VFloat(78)
    /\ sensor.last_updated = VStr("2024-01-15T10:30:00Z")
    /\ ~sensor.wrote
    /\ ~sensor.propagated

\* C35: once a message with a Location field that holds both coordinates
\* has been dispatched to the tracker, the latitude and longitude of the
\* tracker are those coordinates and the tracker is available.
C35_LocationReachesTracker ==
    ( /\ tracker.created
      /\ "Location" \in DOMAIN tracker.data
      /\ tracker.data["Location"].t = "dict"
      /\ {"latitude", "longitude"} \subseteq
            DOMAIN tracker.data["Location"].m )
    => /\ tracker.latitude = tracker.data["Location"].m.latitude
       /\ tracker.longitude = tracker.data["Location"].m.longitude
       /\ Available(tracker)

\* ------------------------------------------------------------------------
\* Properties of the options flow (specification SpecOptions)

\* C38: when a step of the options flow has returned, close() has been
\* called on every Tesla API client the step created.
C38_ClientsClosed ==
    \A i \in 1..Len(options.clients) : options.clients[i].closed

\* C39: when a step has tried to apply a configuration and the call raised
\* or returned an empty result, the flow shows the preset selection with
\* the base error apply_failed, and the preset and the field configuration
\* in the entry options are the ones from before the step.
C39_ApplyFailureShown ==
    options.apply \in {"empty", "raises"} =>
       /\ options.step = "preset_select"
       /\ options.errors = "apply_failed"
       /\ \A k \in {"telemetry_preset", "telemetry_config"} :
             DictGet(options.entry_options, k, "")
                = DictGet(options.before, k, "")
====
